---- MODULE Spec2Model ----
(***************************************************************************)
(* Token distributor: the sequential, checkpointed distribution loop of    *)
(* TokenDistributor.distribute (src/src/core/distributor.ts) together with *)
(* the snapshot store of ResumeManager and the application flows that      *)
(* start, resume and interrupt a run (src/src/index.ts).                   *)
(*                                                                         *)
(* Records are kept in a sequence; the loop index i is the 0-based index   *)
(* of the source, so the record at index i is records[i + 1].              *)
(***************************************************************************)
EXTENDS Integers, Sequences, FiniteSets, TLC

\* ---- bounds of the model ----
MaxRecords == 3        \* records in one input file
MaxBatch == 2          \* largest configured batchSize
MaxConfirmations == 2  \* largest configured confirmationBlocks
MaxShort == 2          \* records in a short input file
MaxLong == 5           \* records in a long input file
MaxFiles == 3          \* snapshot files a resumed process may find
MaxAmount == 5         \* largest balance, total and gas buffer of a balance check
MaxFaults == 2         \* adverse events in one behaviour: failed transfers,
                       \* failed file operations, throws of the failure
                       \* handler and kills of the process

\* ---- program constants ----
DefaultRetryLimit == 3 \* handleTransactionFailure: attempts < 3

VARIABLES
    isConnected, \* TokenDistributor.isConnected
    api,         \* TokenDistributor.api and .account are set
    batchSize,   \* config.batchSize
    handler,     \* which failure handler the engine was constructed with
    pc,          \* position of the process
    records,     \* the in-memory record array of the running distribute()
    summary,     \* the in-memory DistributionSummary
    i,           \* loop index of distribute()
    snapshots,   \* files of the .resume directory, oldest first (sorted by name)
    sameMs,      \* the clock may still read the millisecond of the newest file name
    io,          \* the last ResumeManager call made by the last step
    chain,       \* per record: transfers accepted by the chain (all runs)
    succeeded,   \* records whose executeTransfer returned success (all runs)
    attemptLog,  \* indices on which executeTransfer was called in this run
    inFlight,    \* indices whose executeTransfer call has not returned yet
    answers,     \* the answers of the failure policy in this run, in order
    entry,       \* the records and resumeFromIndex distribute() was entered with
    killedAt,    \* records an interrupted run was working on when it was killed
    prevEnd,     \* how the previous run of this distribution ended
    ioFailed,    \* some file operation has failed
    faults,      \* number of adverse events so far
    last,        \* name of the last step
    conn,        \* the network connection opened by activate() is open
    wait,        \* the confirmation wait of the current transfer
    call         \* the last call of a pure function: its arguments and result

vars == <<isConnected, api, batchSize, handler, pc, records, summary, i, snapshots, sameMs, io,
          chain, succeeded, attemptLog, inFlight, answers, entry,
          killedAt, prevEnd, ioFailed, faults, last, conn, wait, call>>

Statuses == {"pending", "processing", "completed", "failed", "skipped"}
Handlers == {"default", "custom"}
Decisions == {"retry", "skip", "pause", "abort"}
Running == {"loop", "submit", "confirm", "decide", "periodic"}
Returned == {"paused", "aborted", "done"}
Ended == Returned \cup {"threw"}
Left == Ended \cup {"cancelled"}

\* JavaScript's % : the result takes the sign of the dividend.
JsRem(a, b) == IF a >= 0 THEN a % b ELSE 0 - ((0 - a) % b)

RECURSIVE SumAmounts(_)
SumAmounts(recs) ==
    IF recs = <<>> THEN 0 ELSE Head(recs).amount + SumAmounts(Tail(recs))

RECURSIVE SumCompleted(_)
SumCompleted(recs) ==
    IF recs = <<>> THEN 0
    ELSE (IF Head(recs).status = "completed" THEN Head(recs).amount ELSE 0)
         + SumCompleted(Tail(recs))

\* A record as the CSV parser creates it.
NewRecord(amt) ==
    [amount |-> amt, status |-> "pending", attempts |-> 0, error |-> FALSE,
     transactionHash |-> FALSE, timestamp |-> FALSE]

NoSummary ==
    [totalRecords |-> 0, completed |-> 0, failed |-> 0, skipped |-> 0,
     totalAmount |-> 0, distributedAmount |-> 0, failedAmount |-> 0,
     endTime |-> FALSE, abortedByUser |-> FALSE, resumedFrom |-> -1]

\* distribute(): the summary built on entry.
InitSummary(recs, from) ==
    [totalRecords |-> Len(recs), completed |-> 0, failed |-> 0, skipped |-> 0,
     totalAmount |-> SumAmounts(recs), distributedAmount |-> 0, failedAmount |-> 0,
     endTime |-> FALSE, abortedByUser |-> FALSE,
     resumedFrom |-> IF from > 0 THEN from ELSE -1]

NoIo == [op |-> "none", ok |-> TRUE, cursor |-> -1]

\* A snapshot that stores the index after the one it is given.
SnapshotOneAhead(recs, sum, cursor) ==
    [records |-> recs, summary |-> sum, lastProcessedIndex |-> cursor + 1]

\* ResumeData as saveState builds it.
Snapshot(recs, sum, cursor) ==
    [records |-> recs, summary |-> sum, lastProcessedIndex |-> cursor]

\* A file whose content cannot be parsed: fs.writeFile opened (created or
\* truncated) it and failed before the data was on disk.
Torn == [records |-> <<>>, summary |-> NoSummary, lastProcessedIndex |-> -1]
Readable(file) == file # Torn

\* fs.writeFile(filepath, data): the data is written, or the call fails before
\* the file is opened, or it fails after the file was opened.
Written(out) == out = "written"
FileAfterWrite(snap, out) == IF Written(out) THEN snap ELSE Torn

\* A save that empties the directory first once it holds two files.
SaveStateRotating(store, snap, out, same) ==
    IF out = "failed" THEN store
    ELSE IF Len(store) >= 2 THEN <<FileAfterWrite(snap, out)>>
    ELSE Append(store, FileAfterWrite(snap, out))

\* ResumeManager.saveState: a new file named by the millisecond timestamp;
\* a write in the millisecond of the newest file opens that file again; a
\* failed write is swallowed.
SaveState(store, snap, out, same) ==
    IF out = "failed" THEN store
    ELSE IF same /\ store # <<>>
         THEN [store EXCEPT ![Len(store)] = FileAfterWrite(snap, out)]
         ELSE Append(store, FileAfterWrite(snap, out))

\* A clear that removes only the older files.
ClearStateKeepNewest(store, ok) ==
    IF ok /\ store # <<>> THEN <<store[Len(store)]>> ELSE store

\* ResumeManager.clearState: removes the directory; a failure is swallowed.
ClearState(store, ok) == IF ok THEN <<>> ELSE store

\* ResumeManager.listResumeFiles: newest first.
ListResumeFiles(store) == [k \in 1..Len(store) |-> Len(store) + 1 - k]

\* A load that takes the first name of the sorted listing without reversing it.
LoadOldestState(store) == store[1]

\* A load that falls back to an older file when the newest cannot be parsed.
HasAnyReadable(store) == \E k \in 1..Len(store) : Readable(store[k])

\* ResumeManager.loadLatestState: the newest file, or none when there is no
\* file or the newest file cannot be parsed.
HasLatest(store) == store # <<>> /\ Readable(store[Len(store)])
LoadLatestState(store) == store[Len(store)]

\* The outcomes a file operation may have in this step.
IoOutcomes == IF faults < MaxFaults THEN {TRUE, FALSE} ELSE {TRUE}
WriteOutcomes ==
    IF faults < MaxFaults THEN {"written", "failed", "torn"} ELSE {"written"}
SameNames == IF sameMs /\ snapshots # <<>> THEN {TRUE, FALSE} ELSE {FALSE}

Rec(k) == records[k + 1]
\* No confirmation wait has been started.
\* sub: the new-head subscription; heads: headers counted; timer: the timeout;
\* promise: the promise waitForConfirmation returned; stale: subscriptions of
\* earlier waits that are still open; target: config.confirmationBlocks.
NoWait ==
    [sub |-> "none", heads |-> 0, timer |-> "none", promise |-> "none",
     stale |-> 0, target |-> 0]
NoCall == [op |-> "none", args |-> <<>>, result |-> <<>>]
NoEntry == [kind |-> "none", records |-> <<>>, from |-> 0]
LastOf(s) == s[Len(s)]

\* The state after construction: an engine with one of the given failure
\* policies, f adverse events already counted and the wait record w.
InitEngine(hs, f, w) ==
    /\ isConnected = FALSE
    /\ api = FALSE
    /\ batchSize \in 1..MaxBatch
    /\ handler \in hs
    /\ pc = "idle"
    /\ records = <<>>
    /\ summary = NoSummary
    /\ i = 0
    /\ snapshots = <<>>
    /\ sameMs = FALSE
    /\ io = NoIo
    /\ chain = <<>>
    /\ succeeded = {}
    /\ attemptLog = <<>>
    /\ inFlight = {}
    /\ answers = <<>>
    /\ entry = NoEntry
    /\ killedAt = {}
    /\ prevEnd = "none"
    /\ ioFailed = FALSE
    /\ faults = f
    /\ last = "Init"
    /\ conn = FALSE
    /\ wait = w
    /\ call = NoCall

Init == InitEngine(Handlers, 0, NoWait)

\* An engine that counts as initialized as soon as the api handle is set.
IsInitializedApiOnly == api

\* The precondition of distribute(): isConnected, api and account are set.
IsInitialized == isConnected /\ api

\* TokenDistributor.initialize: the connection is opened and the account loaded.
Initialize ==
    /\ pc = "idle"
    /\ ~isConnected
    /\ isConnected' = TRUE
    /\ api' = TRUE
    /\ conn' = TRUE
    /\ io' = NoIo
    /\ last' = "Initialize"
    /\ UNCHANGED <<wait, call, batchSize, handler, pc, records, summary, i, snapshots, sameMs,
                   chain, succeeded, attemptLog, inFlight, answers, entry,
                   killedAt, prevEnd, ioFailed, faults>>

\* TokenDistributor.disconnect after distribute() has ended or the flow has
\* returned before it: the connection is closed, the api handle stays set.
Disconnect ==
    /\ pc \in Left
    /\ api /\ isConnected
    /\ isConnected' = FALSE
    /\ conn' = FALSE
    /\ io' = NoIo
    /\ last' = "Disconnect"
    /\ UNCHANGED <<wait, call, api, batchSize, handler, pc, records, summary, i, snapshots,
                   sameMs, chain, succeeded, attemptLog, inFlight, answers, entry,
                   killedAt, prevEnd, ioFailed, faults>>

\* distribute() on an engine that is not initialized: it throws before
\* anything else is done.
DistributeNotInitialized ==
    /\ pc \in {"idle", "paused"}
    /\ ~IsInitialized
    /\ pc' = "threw"
    /\ io' = NoIo
    /\ last' = "DistributeNotInitialized"
    /\ UNCHANGED <<conn, wait, call, isConnected, api, batchSize, handler, records, summary, i,
                   snapshots, sameMs, chain, succeeded, attemptLog, inFlight,
                   answers, entry, killedAt, prevEnd, ioFailed, faults>>

\* An entry checkpoint that always names the start of the file.
EntrySnapshotAtZero(recs, from) == Snapshot(recs, InitSummary(recs, from), 0)

\* The checkpoint distribute() writes on entry: the records as passed in, the
\* fresh summary and the starting cursor.
EntrySnapshot(recs, from) == Snapshot(recs, InitSummary(recs, from), from)

\* distribute(records, resumeFromIndex) up to the loop: the summary is built and
\* the entry state is checkpointed.
DistributeEntry(kind, recs, from, out, same) ==
    /\ records' = recs
    /\ summary' = InitSummary(recs, from)
    /\ i' = from
    /\ snapshots' = SaveState(snapshots, EntrySnapshot(recs, from), out, same)
    /\ io' = [op |-> "save", ok |-> Written(out), cursor |-> from]
    /\ faults' = IF Written(out) THEN faults ELSE faults + 1
    /\ ioFailed' = (ioFailed \/ ~Written(out))
    /\ sameMs' = (out # "failed" \/ sameMs)
    /\ attemptLog' = <<>>
    /\ inFlight' = {}
    /\ answers' = <<>>
    /\ entry' = [kind |-> kind, records |-> recs, from |-> from]
    /\ pc' = "loop"

\* The rows of a validated input file: every record pending, amounts positive.
\* The k-th row carries the amount k.
InputFiles == {[k \in 1..n |-> NewRecord(k)] : n \in 1..MaxRecords}

\* startNewDistribution -> executeDistribution -> distribute(records).
\* A behaviour follows one distribution (one input file) through its runs.
StartNew ==
    /\ pc = "idle"
    /\ IsInitialized
    /\ chain = <<>>
    /\ \E recs \in InputFiles, out \in WriteOutcomes :
          /\ DistributeEntry("new", recs, 0, out, FALSE)
          /\ chain' = [k \in 1..Len(recs) |-> 0]
    /\ succeeded' = {}
    /\ killedAt' = {}
    /\ last' = "StartNew"
    /\ UNCHANGED <<conn, wait, call, isConnected, api, batchSize, handler, prevEnd>>

\* run -> askToResumeDistribution -> resumeDistribution:
\* distribute(resumeData.records, resumeData.lastProcessedIndex) on the newest file.
Resume ==
    /\ pc = "idle"
    /\ IsInitialized
    /\ HasLatest(snapshots)
    /\ \E out \in WriteOutcomes :
          DistributeEntry("resume", LoadLatestState(snapshots).records,
                          LoadLatestState(snapshots).lastProcessedIndex, out, FALSE)
    /\ last' = "Resume"
    /\ UNCHANGED <<conn, wait, call, isConnected, api, batchSize, handler, chain, succeeded, killedAt, prevEnd>>

\* distribute(records, 0) called again on the same in-memory array after the
\* first call on it has returned paused, as the engine's resume test does.
Recall ==
    /\ pc = "paused"
    /\ entry.kind = "new"
    /\ IsInitialized
    /\ \E out \in WriteOutcomes, same \in SameNames :
          DistributeEntry("recall", records, 0, out, same)
    /\ prevEnd' = pc
    /\ last' = "Recall"
    /\ UNCHANGED <<conn, wait, call, isConnected, api, batchSize, handler, chain, succeeded, killedAt>>

\* The summary of a run whose loop is exhausted.
CompletedRunSummary(sum) == [sum EXCEPT !.endTime = TRUE]

\* Loop exhausted: endTime is stamped and the snapshots are cleared.
Complete ==
    /\ pc = "loop"
    /\ i >= Len(records)
    /\ \E ok \in IoOutcomes :
          /\ snapshots' = ClearState(snapshots, ok)
          /\ io' = [op |-> "clear", ok |-> ok, cursor |-> -1]
          /\ faults' = IF ok THEN faults ELSE faults + 1
          /\ ioFailed' = (ioFailed \/ ~ok)
    /\ summary' = CompletedRunSummary(summary)
    /\ pc' = "done"
    /\ last' = "Complete"
    /\ UNCHANGED <<conn, wait, call, isConnected, api, batchSize, handler, records, i, sameMs, chain, succeeded,
                   attemptLog, answers, inFlight, entry, killedAt, prevEnd>>

\* A loop that never recognises a completed record.
IsCompletedNever(r) == FALSE

\* The loop's test for a record that needs no transfer.
IsCompleted(r) == r.status = "completed"

\* A skip that is also counted as a completion.
SkippedAsCompleted(sum) == [sum EXCEPT !.skipped = @ + 1, !.completed = @ + 1]

\* The summary after the loop has passed a completed record.
SkippedSummary(sum) == [sum EXCEPT !.skipped = @ + 1]

\* A loop that steps over the record after the current one.
NextIndexSkipsOne(k) == k + 2

\* The loop increment.
NextIndex(k) == k + 1

\* A record that is already completed: counted as skipped, loop continues.
SkipCompleted ==
    /\ pc = "loop"
    /\ i < Len(records)
    /\ IsCompleted(Rec(i))
    /\ summary' = SkippedSummary(summary)
    /\ i' = NextIndex(i)
    /\ io' = NoIo
    /\ last' = "SkipCompleted"
    /\ UNCHANGED <<conn, wait, call, isConnected, api, batchSize, handler, pc, records, snapshots, sameMs, chain,
                   succeeded, attemptLog, answers, inFlight, entry, killedAt, faults, prevEnd, ioFailed>>

\* A reset that also restarts the attempts count.
ResetRecordZeroAttempts(r) ==
    [r EXCEPT !.status = "pending", !.error = FALSE, !.attempts = 0]

\* The reset of a failed record: the attempts count is kept.
ResetRecord(r) == [r EXCEPT !.status = "pending", !.error = FALSE]

\* A failed record the loop comes to is reset for another attempt.
ResetFailed ==
    /\ pc = "loop"
    /\ i < Len(records)
    /\ ~IsCompleted(Rec(i))
    /\ Rec(i).status = "failed"
    /\ records' = [records EXCEPT ![i + 1] = ResetRecord(@)]
    /\ io' = NoIo
    /\ last' = "ResetFailed"
    /\ UNCHANGED <<conn, wait, call, isConnected, api, batchSize, handler, pc, summary, i, snapshots, sameMs, chain,
                   succeeded, attemptLog, answers, inFlight, entry, killedAt, faults, prevEnd, ioFailed>>

\* The record is marked processing and executeTransfer is called.
MarkProcessing ==
    /\ pc = "loop"
    /\ i < Len(records)
    /\ ~IsCompleted(Rec(i))
    /\ Rec(i).status # "failed"
    /\ records' = [records EXCEPT ![i + 1].status = "processing",
                                  ![i + 1].timestamp = TRUE]
    /\ attemptLog' = Append(attemptLog, i)
    /\ inFlight' = inFlight \cup {i}
    /\ pc' = "submit"
    /\ io' = NoIo
    /\ last' = "MarkProcessing"
    /\ UNCHANGED <<conn, wait, call, answers, isConnected, api, batchSize, handler, summary, i, snapshots, sameMs, chain,
                   succeeded, entry, killedAt, faults, prevEnd, ioFailed>>

\* The catch block of the loop up to the consultation of the failure policy.
FailedRecords(recs, k) ==
    [recs EXCEPT ![k + 1].status = "failed", ![k + 1].error = TRUE,
                 ![k + 1].attempts = @ + 1]

\* A catch block that counts the failure but not its amount.
FailedSummaryNoAmount(sum, amt) == [sum EXCEPT !.failed = @ + 1]

FailedSummary(sum, amt) ==
    [sum EXCEPT !.failed = @ + 1, !.failedAmount = @ + amt]

\* The success branch of the loop.
CompletedRecords(recs, k) ==
    [recs EXCEPT ![k + 1].status = "completed", ![k + 1].transactionHash = TRUE]

CompletedSummary(sum, amt) ==
    [sum EXCEPT !.completed = @ + 1, !.distributedAmount = @ + amt]

\* A call of executeTransfer that the loop does not wait for.
TransferNotAwaited(calls, k) == calls

\* distribute() awaits executeTransfer: the call on record k has returned.
TransferReturned(calls, k) == calls \ {k}

\* The loop's catch block after executeTransfer has returned an unsuccessful
\* result for the record at index i: the failure is recorded and the failure
\* policy is consulted next.
TransferFailed ==
    /\ records' = FailedRecords(records, i)
    /\ summary' = FailedSummary(summary, Rec(i).amount)
    /\ pc' = "decide"
    /\ inFlight' = TransferReturned(inFlight, i)
    /\ io' = NoIo
    /\ UNCHANGED <<conn, call, isConnected, api, batchSize, handler, i, snapshots, sameMs, chain, succeeded,
                   attemptLog, answers, entry, killedAt, prevEnd, ioFailed>>

\* executeTransfer: transfer() or signAndSendTx throws; the result is
\* unsuccessful and nothing reached the chain.
SubmitFail ==
    /\ pc = "submit"
    /\ faults < MaxFaults
    /\ faults' = faults + 1
    /\ TransferFailed
    /\ last' = "SubmitFail"
    /\ UNCHANGED wait

\* executeTransfer up to the confirmation wait: the chain has accepted the
\* transaction of the record at index i.
TransferSubmitted ==
    /\ chain' = [chain EXCEPT ![i + 1] = @ + 1]
    /\ sameMs' = FALSE
    /\ pc' = "confirm"
    /\ io' = NoIo
    /\ UNCHANGED <<conn, call, isConnected, api, batchSize, handler, records, summary, i, snapshots, succeeded,
                   attemptLog, answers, inFlight, entry, killedAt, faults, prevEnd, ioFailed>>

\* executeTransfer: the transaction is accepted; the confirmation wait begins.
SubmitOk ==
    /\ pc = "submit"
    /\ TransferSubmitted
    /\ last' = "SubmitOk"
    /\ UNCHANGED wait

\* The success branch of the loop after executeTransfer has returned success
\* for the record at index i.
TransferSucceeded ==
    /\ records' = CompletedRecords(records, i)
    /\ summary' = CompletedSummary(summary, Rec(i).amount)
    /\ succeeded' = succeeded \cup {i}
    /\ pc' = "periodic"
    /\ inFlight' = TransferReturned(inFlight, i)
    /\ io' = NoIo
    /\ UNCHANGED <<conn, call, isConnected, api, batchSize, handler, i, snapshots, sameMs, chain, attemptLog, answers,
                   entry, killedAt, faults, prevEnd, ioFailed>>

\* The confirmation depth is reached: executeTransfer returns success.
ConfirmOk ==
    /\ pc = "confirm"
    /\ TransferSucceeded
    /\ last' = "ConfirmOk"
    /\ UNCHANGED wait

\* The confirmation wait times out: executeTransfer returns an unsuccessful
\* result although the chain accepted the transaction.
ConfirmTimeout ==
    /\ pc = "confirm"
    /\ faults < MaxFaults
    /\ faults' = faults + 1
    /\ TransferFailed
    /\ last' = "ConfirmTimeout"
    /\ UNCHANGED wait

\* The same two failures for a caller that places no limit on how many
\* transfers fail.
SubmitFailAny ==
    /\ pc = "submit"
    /\ TransferFailed
    /\ last' = "SubmitFail"
    /\ UNCHANGED <<faults, wait>>

ConfirmTimeoutAny ==
    /\ pc = "confirm"
    /\ TransferFailed
    /\ last' = "ConfirmTimeout"
    /\ UNCHANGED <<faults, wait>>

\* A default policy that retries once more before it skips.
AllowedOneMore(h, attempts) ==
    IF h = "default"
    THEN (IF attempts <= DefaultRetryLimit THEN {"retry"} ELSE {"skip"})
    ELSE Decisions

\* handleTransactionFailure: the answers the failure policy may give for a
\* record with the given attempts count. Without a handler the engine retries
\* below the retry limit and skips from it on; the interactive handler of the
\* application offers no retry from the third attempt on; any other handler
\* may answer anything.
Allowed(h, attempts) ==
    IF h = "default"
    THEN (IF attempts < DefaultRetryLimit THEN {"retry"} ELSE {"skip"})
    ELSE IF h = "interactive" /\ attempts >= 3 THEN Decisions \ {"retry"}
    ELSE Decisions

\* The answer of the failure policy for the record at index i, with the
\* attempts count it was asked with and the number of transfers attempted so far.
Answer(action) ==
    [action |-> action, index |-> i, attempts |-> Rec(i).attempts,
     attempt |-> Len(attemptLog)]

\* A retry that leaves the loop index where it is.
RetryIndexKept(k) == k

\* case 'retry': i--.
RetryIndex(k) == k - 1

DecideRetry ==
    /\ pc = "decide"
    /\ "retry" \in Allowed(handler, Rec(i).attempts)
    /\ answers' = Append(answers, Answer("retry"))
    /\ i' = RetryIndex(i)
    /\ sameMs' = sameMs
    /\ pc' = "periodic"
    /\ io' = NoIo
    /\ last' = "DecideRetry"
    /\ UNCHANGED <<conn, wait, call, isConnected, api, batchSize, handler, records, summary, snapshots, chain,
                   succeeded, attemptLog, inFlight, entry, killedAt, faults, prevEnd, ioFailed>>

DecideSkip ==
    /\ pc = "decide"
    /\ "skip" \in Allowed(handler, Rec(i).attempts)
    /\ answers' = Append(answers, Answer("skip"))
    /\ sameMs' = sameMs
    /\ pc' = "periodic"
    /\ io' = NoIo
    /\ last' = "DecideSkip"
    /\ UNCHANGED <<conn, wait, call, isConnected, api, batchSize, handler, records, summary, i, snapshots, chain,
                   succeeded, attemptLog, inFlight, entry, killedAt, faults, prevEnd, ioFailed>>

\* A pause that checkpoints past the failed record.
PauseCursorNext(k) == k + 1

\* The cursor pauseDistribution checkpoints for a pause at index k.
PauseCursor(k) == k

\* An abort that checkpoints the failed record's own index.
AbortCursorCurrent(k) == k

\* The cursor the abort branch checkpoints for an abort at index k.
AbortCursor(k) == k + 1

\* The summary the abort branch returns.
AbortedSummary(sum) == [sum EXCEPT !.abortedByUser = TRUE, !.endTime = TRUE]

DecidePause ==
    /\ pc = "decide"
    /\ "pause" \in Allowed(handler, Rec(i).attempts)
    /\ answers' = Append(answers, Answer("pause"))
    /\ \E out \in WriteOutcomes :
       \E same \in SameNames :
          /\ snapshots' = SaveState(snapshots, Snapshot(records, summary, PauseCursor(i)), out, same)
          /\ io' = [op |-> "save", ok |-> Written(out), cursor |-> PauseCursor(i)]
          /\ faults' = IF Written(out) THEN faults ELSE faults + 1
          /\ ioFailed' = (ioFailed \/ ~Written(out))
          /\ sameMs' = (out # "failed" \/ sameMs)
    /\ pc' = "paused"
    /\ last' = "DecidePause"
    /\ UNCHANGED <<conn, wait, call, isConnected, api, batchSize, handler, records, summary, i, chain, succeeded,
                   attemptLog, inFlight, entry, killedAt, prevEnd>>

DecideAbort ==
    /\ pc = "decide"
    /\ "abort" \in Allowed(handler, Rec(i).attempts)
    /\ answers' = Append(answers, Answer("abort"))
    /\ summary' = AbortedSummary(summary)
    /\ \E out \in WriteOutcomes :
       \E same \in SameNames :
          /\ snapshots' = SaveState(snapshots,
                                    Snapshot(records, AbortedSummary(summary), AbortCursor(i)),
                                    out, same)
          /\ io' = [op |-> "save", ok |-> Written(out), cursor |-> AbortCursor(i)]
          /\ faults' = IF Written(out) THEN faults ELSE faults + 1
          /\ ioFailed' = (ioFailed \/ ~Written(out))
          /\ sameMs' = (out # "failed" \/ sameMs)
    /\ pc' = "aborted"
    /\ last' = "DecideAbort"
    /\ UNCHANGED <<conn, wait, call, isConnected, api, batchSize, handler, records, i, chain, succeeded,
                   attemptLog, inFlight, entry, killedAt, prevEnd>>

\* The injected failure handler throws: the error leaves the loop through the
\* outer catch, which logs and rethrows it; nothing is checkpointed or cleared.
\* A throw counts as one adverse event of the behaviour.
DecideThrows ==
    /\ pc = "decide"
    /\ handler # "default"
    /\ faults < MaxFaults
    /\ faults' = faults + 1
    /\ pc' = "threw"
    /\ io' = NoIo
    /\ last' = "DecideThrows"
    /\ UNCHANGED <<conn, wait, call, isConnected, api, batchSize, handler, records, summary, i,
                   snapshots, sameMs, chain, succeeded, attemptLog, inFlight, answers, entry,
                   killedAt, prevEnd, ioFailed>>

\* Whether the loop checkpoints after the iteration that ends with index k.
PeriodicDue(k, batch) == JsRem(k, batch) = 0

\* End of an iteration: the periodic checkpoint at i + 1 when i is a multiple
\* of batchSize, then the delay between transactions and the loop increment.
PeriodicCheckpoint ==
    /\ pc = "periodic"
    /\ IF PeriodicDue(i, batchSize)
       THEN \E out \in WriteOutcomes, same \in SameNames :
               /\ snapshots' = SaveState(snapshots, Snapshot(records, summary, i + 1), out, same)
               /\ io' = [op |-> "save", ok |-> Written(out), cursor |-> i + 1]
               /\ faults' = IF Written(out) THEN faults ELSE faults + 1
               /\ ioFailed' = (ioFailed \/ ~Written(out))
       ELSE /\ io' = NoIo
            /\ UNCHANGED <<snapshots, faults, ioFailed>>
    /\ sameMs' = FALSE
    /\ i' = NextIndex(i)
    /\ pc' = "loop"
    /\ last' = "PeriodicCheckpoint"
    /\ UNCHANGED <<conn, wait, call, isConnected, api, batchSize, handler, records, summary, chain, succeeded,
                   attemptLog, answers, inFlight, entry, killedAt, prevEnd>>

\* The process is killed while distribute() runs: memory is lost, the files
\* and the chain stay.
Kill ==
    /\ pc \in Running
    /\ faults < MaxFaults
    /\ faults' = faults + 1
    /\ killedAt' = killedAt \cup (IF attemptLog = <<>> THEN {} ELSE {LastOf(attemptLog)})
    /\ prevEnd' = "killed"
    /\ pc' = "idle"
    /\ isConnected' = FALSE
    /\ api' = FALSE
    /\ records' = <<>>
    /\ summary' = NoSummary
    /\ i' = 0
    /\ attemptLog' = <<>>
    /\ inFlight' = {}
    /\ answers' = <<>>
    /\ entry' = NoEntry
    /\ sameMs' = FALSE
    /\ conn' = FALSE
    /\ io' = NoIo
    /\ last' = "Kill"
    /\ UNCHANGED <<wait, call, batchSize, handler, snapshots, chain, succeeded, ioFailed>>

\* distribute() has returned and the process exits.
Exit ==
    /\ pc \in Ended
    /\ prevEnd' = IF pc \in Returned THEN pc ELSE prevEnd
    /\ pc' = "idle"
    /\ isConnected' = FALSE
    /\ api' = FALSE
    /\ records' = <<>>
    /\ summary' = NoSummary
    /\ i' = 0
    /\ attemptLog' = <<>>
    /\ inFlight' = {}
    /\ answers' = <<>>
    /\ entry' = NoEntry
    /\ sameMs' = FALSE
    /\ conn' = FALSE
    /\ io' = NoIo
    /\ last' = "Exit"
    /\ UNCHANGED <<wait, call, batchSize, handler, snapshots, chain, succeeded, killedAt, ioFailed, faults>>

Next ==
    \/ StartNew
    \/ Resume
    \/ Recall
    \/ Complete
    \/ SkipCompleted
    \/ ResetFailed
    \/ MarkProcessing
    \/ SubmitFail
    \/ SubmitOk
    \/ ConfirmOk
    \/ ConfirmTimeout
    \/ DecideRetry
    \/ DecideSkip
    \/ DecidePause
    \/ DecideAbort
    \/ DecideThrows
    \/ PeriodicCheckpoint
    \/ Kill
    \/ Exit
    \/ Initialize

\* The application: one process after another runs a new or a resumed
\* distribution, returns or is killed.
Spec == Init /\ [][Next]_vars

\* The engine as a library: one engine object on which a caller calls
\* initialize, distribute and disconnect in any order.
NextEngine ==
    \/ Initialize
    \/ Disconnect
    \/ DistributeNotInitialized
    \/ StartNew
    \/ Recall
    \/ Complete
    \/ SkipCompleted
    \/ ResetFailed
    \/ MarkProcessing
    \/ SubmitFail
    \/ SubmitOk
    \/ ConfirmOk
    \/ ConfirmTimeout
    \/ DecideRetry
    \/ DecideSkip
    \/ DecidePause
    \/ DecideAbort
    \/ DecideThrows
    \/ PeriodicCheckpoint
    \/ Exit

SpecEngine == Init /\ [][NextEngine]_vars

\* An engine constructed without a failure handler on which distribute() is
\* called for a new input file. Any number of transfers may fail; the file
\* operations succeed (the budget of adverse events is spent).
InitDefault == InitEngine({"default"}, MaxFaults, NoWait)

\* A new distribution of a short input file.
StartNewShort == StartNew /\ Len(records') <= MaxShort

\* The steps of a running distribute() call.
LoopStep ==
    \/ Complete
    \/ SkipCompleted
    \/ ResetFailed
    \/ MarkProcessing
    \/ SubmitFailAny
    \/ SubmitOk
    \/ ConfirmOk
    \/ ConfirmTimeoutAny
    \/ DecideRetry
    \/ DecideSkip
    \/ PeriodicCheckpoint

NextDefault ==
    \/ Initialize
    \/ StartNewShort
    \/ Complete
    \/ ResetFailed
    \/ MarkProcessing
    \/ SubmitFailAny
    \/ SubmitOk
    \/ ConfirmOk
    \/ ConfirmTimeoutAny
    \/ DecideRetry
    \/ DecideSkip
    \/ PeriodicCheckpoint

\* Every await of the loop returns: a running call takes its next step.
SpecDefault == InitDefault /\ [][NextDefault]_vars /\ WF_vars(LoopStep)

\* ---- the application's interactive handler ----

\* The application: a short input file, the interactive handler, any number
\* of failing transfers, runs that return and are resumed from the newest
\* snapshot by the next process. No transfer is started for a record whose
\* attempts counter is already past the retry limit, and no run is resumed
\* once the directory holds more than MaxFiles files. A run resumed from a
\* file meets no completed record at or after its cursor (the skip branch of
\* the loop is not taken), and the prompt of the handler always answers.
NextInteractive ==
    \/ Initialize
    \/ StartNewShort
    \/ Resume /\ Len(snapshots) <= MaxFiles
    \/ Complete
    \/ ResetFailed
    \/ MarkProcessing /\ Rec(i).attempts <= DefaultRetryLimit
    \/ SubmitFailAny
    \/ SubmitOk
    \/ ConfirmOk
    \/ ConfirmTimeoutAny
    \/ DecideRetry
    \/ DecideSkip
    \/ DecidePause
    \/ DecideAbort
    \/ PeriodicCheckpoint
    \/ Exit

SpecInteractive == InitEngine({"default", "interactive"}, MaxFaults, NoWait) /\ [][NextInteractive]_vars

\* ---- a long input file ----

\* A new distribution of a long input file.
StartNewLong ==
    /\ pc = "idle"
    /\ IsInitialized
    /\ chain = <<>>
    /\ \E out \in WriteOutcomes :
          DistributeEntry("new", [k \in 1..MaxLong |-> NewRecord(k)], 0, out, FALSE)
    /\ chain' = [k \in 1..MaxLong |-> 0]
    /\ succeeded' = {}
    /\ killedAt' = {}
    /\ last' = "StartNew"
    /\ UNCHANGED <<conn, wait, call, isConnected, api, batchSize, handler, prevEnd>>

\* One engine object with an injected handler that answers skip or pause, on
\* which distribute() is called for a new file of MaxLong records and called
\* again on the same array after a pause. Transfers succeed or fail at
\* submission.
NextBatch ==
    \/ Initialize
    \/ StartNewLong
    \/ Recall
    \/ Complete
    \/ SkipCompleted
    \/ ResetFailed
    \/ MarkProcessing
    \/ SubmitFail
    \/ SubmitOk
    \/ ConfirmOk
    \/ DecideSkip
    \/ DecidePause
    \/ PeriodicCheckpoint

SpecBatch == InitEngine({"custom"}, 0, NoWait) /\ [][NextBatch]_vars

\* ---- the checkpoint writes, started and settled ----

\* A loop that goes on without waiting for the write it started.
AwaitingNever == FALSE

\* distribute() is suspended at "await saveState(...)" or "await
\* clearState()": the write has started and its promise has not settled.
Awaiting == io.op = "writing"

\* A checkpoint write (or the final clear) starts: on entry, in the pause and
\* abort branches, at a due periodic checkpoint and after the loop.
WriteStarts ==
    /\ io.op # "writing"
    /\ \/ pc = "idle" /\ IsInitialized /\ (chain = <<>> \/ HasLatest(snapshots))
       \/ pc = "paused" /\ entry.kind = "new" /\ IsInitialized
       \/ pc = "decide" /\ Allowed(handler, Rec(i).attempts) \cap {"pause", "abort"} # {}
       \/ pc = "periodic" /\ PeriodicDue(i, batchSize)
       \/ pc = "loop" /\ i >= Len(records)
    /\ io' = [op |-> "writing", ok |-> TRUE, cursor |-> -1]
    /\ last' = "WriteStarts"
    /\ UNCHANGED <<conn, wait, call, isConnected, api, batchSize, handler, pc, records, summary,
                   i, snapshots, sameMs, chain, succeeded, attemptLog, inFlight, answers, entry,
                   killedAt, faults, prevEnd, ioFailed>>

\* The steps that settle a started write and continue after the await, and
\* the steps that do not write; the latter wait for a pending write.
NextAwait ==
    \/ Initialize
    \/ WriteStarts
    \/ io.op = "writing" /\ StartNew
    \/ io.op = "writing" /\ Resume
    \/ io.op = "writing" /\ Recall
    \/ io.op = "writing" /\ DecidePause
    \/ io.op = "writing" /\ DecideAbort
    \/ io.op = "writing" /\ PeriodicCheckpoint
    \/ io.op = "writing" /\ Complete
    \/ ~Awaiting /\ PeriodicCheckpoint /\ ~PeriodicDue(i, batchSize)
    \/ ~Awaiting /\ SkipCompleted
    \/ ~Awaiting /\ ResetFailed
    \/ ~Awaiting /\ MarkProcessing
    \/ ~Awaiting /\ SubmitFail
    \/ ~Awaiting /\ SubmitOk
    \/ ~Awaiting /\ ConfirmOk
    \/ ~Awaiting /\ ConfirmTimeout
    \/ ~Awaiting /\ DecideRetry
    \/ ~Awaiting /\ DecideSkip
    \/ ~Awaiting /\ DecideThrows
    \/ ~Awaiting /\ Exit

SpecAwait == Init /\ [][NextAwait]_vars

\* ---- the confirmation wait, step by step ----

\* waitForConfirmation is entered: subscribeNewHeads has been called and its
\* promise is pending. A subscription the previous wait left open is counted.
NewWait(w) ==
    [sub |-> "pending", heads |-> 0, timer |-> "none", promise |-> "pending",
     stale |-> w.stale + (IF w.sub = "active" THEN 1 ELSE 0), target |-> w.target]

\* A timeout callback that rejects without unsubscribing.
AfterTimeoutStillSubscribed(w) ==
    [w EXCEPT !.timer = "fired",
              !.promise = IF @ = "pending" THEN "rejected" ELSE @]

\* The timeout callback: unsubscribe(), then reject (without effect on a
\* promise that is already settled).
AfterTimeout(w) ==
    [w EXCEPT !.sub = "closed", !.timer = "fired",
              !.promise = IF @ = "pending" THEN "rejected" ELSE @]

\* The header callback: confirmations++, resolve at the target.
AfterHead(w) ==
    [w EXCEPT !.heads = @ + 1,
              !.promise = IF w.heads + 1 >= w.target THEN "resolved" ELSE @]

\* executeTransfer: the transaction is accepted and waitForConfirmation
\* subscribes to new heads.
SubmitOkSubscribe ==
    /\ pc = "submit"
    /\ TransferSubmitted
    /\ wait' = NewWait(wait)
    /\ last' = "SubmitOk"

\* subscribeNewHeads resolves: the timeout is armed (.then).
Subscribed ==
    /\ pc = "confirm"
    /\ wait.sub = "pending"
    /\ wait' = [wait EXCEPT !.sub = "active", !.timer = "armed"]
    /\ io' = NoIo
    /\ last' = "Subscribed"
    /\ UNCHANGED <<conn, call, isConnected, api, batchSize, handler, pc, records, summary, i,
                   snapshots, sameMs, chain, succeeded, attemptLog, inFlight, answers,
                   entry, killedAt, prevEnd, ioFailed, faults>>

\* subscribeNewHeads rejects (.catch(reject)): no subscription, no timeout;
\* executeTransfer returns an unsuccessful result.
SubscribeFails ==
    /\ pc = "confirm"
    /\ wait.sub = "pending"
    /\ wait' = [wait EXCEPT !.sub = "none", !.promise = "rejected"]
    /\ TransferFailed
    /\ last' = "SubscribeFails"
    /\ UNCHANGED faults

\* A new head below the confirmation depth.
HeadCounted ==
    /\ pc = "confirm"
    /\ wait.sub = "active"
    /\ wait.promise = "pending"
    /\ wait.heads + 1 < wait.target
    /\ wait' = AfterHead(wait)
    /\ io' = NoIo
    /\ last' = "HeadCounted"
    /\ UNCHANGED <<conn, call, isConnected, api, batchSize, handler, pc, records, summary, i,
                   snapshots, sameMs, chain, succeeded, attemptLog, inFlight, answers,
                   entry, killedAt, prevEnd, ioFailed, faults>>

\* The new head that reaches the confirmation depth: the promise resolves and
\* executeTransfer returns success. The subscription stays open and the
\* timeout stays armed.
HeadConfirms ==
    /\ pc = "confirm"
    /\ wait.sub = "active"
    /\ wait.promise = "pending"
    /\ wait.heads + 1 >= wait.target
    /\ wait' = AfterHead(wait)
    /\ TransferSucceeded
    /\ last' = "HeadConfirms"

\* The timeout fires while the wait is pending: the subscription is closed,
\* the promise rejects and executeTransfer returns an unsuccessful result.
ConfirmTimerFires ==
    /\ pc = "confirm"
    /\ wait.timer = "armed"
    /\ wait.promise = "pending"
    /\ wait' = AfterTimeout(wait)
    /\ TransferFailed
    /\ last' = "ConfirmTimerFires"
    /\ UNCHANGED faults

\* The timeout of a wait that has already resolved fires, five minutes after
\* it was armed.
LateTimerFires ==
    /\ wait.timer = "armed"
    /\ wait.promise = "resolved"
    /\ wait' = AfterTimeout(wait)
    /\ io' = NoIo
    /\ last' = "LateTimerFires"
    /\ UNCHANGED <<conn, call, isConnected, api, batchSize, handler, pc, records, summary, i,
                   snapshots, sameMs, chain, succeeded, attemptLog, inFlight, answers,
                   entry, killedAt, prevEnd, ioFailed, faults>>

\* The timeout of an earlier wait fires.
StaleTimerFires ==
    /\ wait.stale > 0
    /\ wait' = [wait EXCEPT !.stale = @ - 1]
    /\ io' = NoIo
    /\ last' = "StaleTimerFires"
    /\ UNCHANGED <<conn, call, isConnected, api, batchSize, handler, pc, records, summary, i,
                   snapshots, sameMs, chain, succeeded, attemptLog, inFlight, answers,
                   entry, killedAt, prevEnd, ioFailed, faults>>

\* An engine without a failure handler whose confirmation waits are followed
\* step by step.
InitConfirm ==
    \E n \in 1..MaxConfirmations :
        InitEngine({"default"}, MaxFaults, [NoWait EXCEPT !.target = n])

NextConfirm ==
    \/ Initialize
    \/ StartNewShort
    \/ Complete
    \/ ResetFailed
    \/ MarkProcessing
    \/ SubmitOkSubscribe
    \/ Subscribed
    \/ SubscribeFails
    \/ HeadCounted
    \/ HeadConfirms
    \/ ConfirmTimerFires
    \/ LateTimerFires
    \/ StaleTimerFires
    \/ DecideRetry
    \/ DecideSkip
    \/ PeriodicCheckpoint

\* The call of subscribeNewHeads settles, and an armed timeout fires.
SpecConfirm ==
    /\ InitConfirm
    /\ [][NextConfirm]_vars
    /\ WF_vars(Subscribed \/ SubscribeFails)
    /\ WF_vars(ConfirmTimerFires)

\* ---- the application flows with initialize() step by step ----

\* initialize(): activate() has opened the connection; the handle is still a
\* local of initialize().
Activate ==
    /\ pc = "idle"
    /\ ~isConnected /\ ~conn
    /\ conn' = TRUE
    /\ pc' = "activated"
    /\ io' = NoIo
    /\ last' = "Activate"
    /\ UNCHANGED <<isConnected, api, faults>>
    /\ UNCHANGED <<wait, call, batchSize, handler, records, summary, i, snapshots, sameMs,
                   chain, succeeded, attemptLog, inFlight, answers, entry, killedAt,
                   prevEnd, ioFailed>>

\* initialize(): the keyring rejects the private key after activate() has
\* returned; initialize() throws before the handle is stored.
LoadAccountFails ==
    /\ pc = "activated"
    /\ faults < MaxFaults
    /\ faults' = faults + 1
    /\ pc' = "threw"
    /\ io' = NoIo
    /\ last' = "LoadAccountFails"
    /\ UNCHANGED <<isConnected, api, conn>>
    /\ UNCHANGED <<wait, call, batchSize, handler, records, summary, i, snapshots, sameMs,
                   chain, succeeded, attemptLog, inFlight, answers, entry, killedAt,
                   prevEnd, ioFailed>>

\* initialize(): api, account and isConnected are set.
LoadAccount ==
    /\ pc = "activated"
    /\ api' = TRUE
    /\ isConnected' = TRUE
    /\ pc' = "connected"
    /\ io' = NoIo
    /\ last' = "LoadAccount"
    /\ UNCHANGED <<conn, faults>>
    /\ UNCHANGED <<wait, call, batchSize, handler, records, summary, i, snapshots, sameMs,
                   chain, succeeded, attemptLog, inFlight, answers, entry, killedAt,
                   prevEnd, ioFailed>>

\* initialize(): getAccount or balance throws; initialize() rethrows.
AccountInfoFails ==
    /\ pc = "connected"
    /\ faults < MaxFaults
    /\ faults' = faults + 1
    /\ pc' = "threw"
    /\ io' = NoIo
    /\ last' = "AccountInfoFails"
    /\ UNCHANGED <<isConnected, api, conn>>
    /\ UNCHANGED <<wait, call, batchSize, handler, records, summary, i, snapshots, sameMs,
                   chain, succeeded, attemptLog, inFlight, answers, entry, killedAt,
                   prevEnd, ioFailed>>

\* initialize() returns.
AccountInfo ==
    /\ pc = "connected"
    /\ pc' = "idle"
    /\ io' = NoIo
    /\ last' = "AccountInfo"
    /\ UNCHANGED <<isConnected, api, conn, faults>>
    /\ UNCHANGED <<wait, call, batchSize, handler, records, summary, i, snapshots, sameMs,
                   chain, succeeded, attemptLog, inFlight, answers, entry, killedAt,
                   prevEnd, ioFailed>>

\* startNewDistribution returns before distribute(): the balance is
\* insufficient and the user aborts, or the user does not confirm.
Cancel ==
    /\ pc = "idle"
    /\ IsInitialized
    /\ pc' = "cancelled"
    /\ io' = NoIo
    /\ last' = "Cancel"
    /\ UNCHANGED <<isConnected, api, conn, faults>>
    /\ UNCHANGED <<wait, call, batchSize, handler, records, summary, i, snapshots, sameMs,
                   chain, succeeded, attemptLog, inFlight, answers, entry, killedAt,
                   prevEnd, ioFailed>>

\* finally: disconnect() is called on a connected engine and the library's
\* disconnect throws; isConnected stays set.
DisconnectFails ==
    /\ pc \in Left
    /\ api /\ isConnected
    /\ last # "DisconnectFails"
    /\ faults < MaxFaults
    /\ faults' = faults + 1
    /\ io' = NoIo
    /\ last' = "DisconnectFails"
    /\ UNCHANGED <<isConnected, api, conn, pc>>
    /\ UNCHANGED <<wait, call, batchSize, handler, records, summary, i, snapshots, sameMs,
                   chain, succeeded, attemptLog, inFlight, answers, entry, killedAt,
                   prevEnd, ioFailed>>

\* The finally block is done: disconnect() has returned (at once on an engine
\* that is not connected) or thrown, and the flow ends.
FlowEnds ==
    /\ pc \in Left
    /\ ~(api /\ isConnected) \/ last = "DisconnectFails"
    /\ pc' = "ended"
    /\ prevEnd' = IF pc \in Returned THEN pc ELSE prevEnd
    /\ io' = NoIo
    /\ last' = "FlowEnds"
    /\ UNCHANGED <<isConnected, api, conn, faults>>
    /\ UNCHANGED <<wait, call, batchSize, handler, records, summary, i, snapshots, sameMs,
                   chain, succeeded, attemptLog, inFlight, answers, entry, killedAt,
                   ioFailed>>

\* run(): process.exit after the flow has ended.
ExitApp ==
    /\ pc = "ended"
    /\ pc' = "idle"
    /\ isConnected' = FALSE
    /\ api' = FALSE
    /\ conn' = FALSE
    /\ records' = <<>>
    /\ summary' = NoSummary
    /\ i' = 0
    /\ attemptLog' = <<>>
    /\ inFlight' = {}
    /\ answers' = <<>>
    /\ entry' = NoEntry
    /\ sameMs' = FALSE
    /\ io' = NoIo
    /\ last' = "ExitApp"
    /\ UNCHANGED <<wait, call, batchSize, handler, snapshots, chain, succeeded, killedAt,
                   prevEnd, ioFailed, faults>>

NextApp ==
    \/ Activate
    \/ LoadAccountFails
    \/ LoadAccount
    \/ AccountInfoFails
    \/ AccountInfo
    \/ Cancel
    \/ StartNew
    \/ Resume
    \/ Complete
    \/ ResetFailed
    \/ MarkProcessing
    \/ SubmitFail
    \/ SubmitOk
    \/ ConfirmOk
    \/ ConfirmTimeout
    \/ DecideRetry
    \/ DecideSkip
    \/ DecidePause
    \/ DecideAbort
    \/ PeriodicCheckpoint
    \/ Disconnect
    \/ DisconnectFails
    \/ FlowEnds
    \/ ExitApp

\* The application with its flows followed from initialize() to the finally
\* block.
SpecApp == Init /\ [][NextApp]_vars

\* ---- functions of their arguments ----

\* A call that leaves the engine, the files and the chain as they are; a
\* behaviour follows one such call.
CallReturns(op, args, result) ==
    /\ call = NoCall
    /\ call' = [op |-> op, args |-> args, result |-> result]
    /\ io' = NoIo
    /\ last' = op
    /\ UNCHANGED <<isConnected, api, conn, wait, batchSize, handler, pc, records, summary,
                   i, snapshots, sameMs, chain, succeeded, attemptLog, inFlight, answers,
                   entry, killedAt, prevEnd, ioFailed, faults>>


\* A balance check that also asks for the gas buffer to be left over.
SufficientStrict(balance, required) == balance > required

\* validateSufficientBalance: const sufficient = currentBalance >= requiredAmount.
Sufficient(balance, required) == balance >= required

\* validateSufficientBalance(totalAmount) with the balance the chain reports
\* and the gas buffer of the configuration, all in Shannon. The shortfall is
\* <<>> when the field is not set.
ValidateSufficientBalance(currentBalance, totalAmount, gasBuffer) ==
    LET requiredAmount == totalAmount + gasBuffer
        sufficient == Sufficient(currentBalance, requiredAmount)
    IN  [sufficient |-> sufficient,
         currentBalance |-> currentBalance,
         requiredAmount |-> requiredAmount,
         shortfall |-> IF sufficient THEN <<>> ELSE <<requiredAmount - currentBalance>>]

CallValidateSufficientBalance ==
    /\ call = NoCall
    /\ pc = "idle"
    /\ IsInitialized
    /\ \E b \in 0..MaxAmount, t \in 0..MaxAmount, g \in 0..MaxAmount :
          CallReturns("validateSufficientBalance", <<b, t, g>>,
                      ValidateSufficientBalance(b, t, g))

\* ---- persistence of a snapshot: JSON text and back ----

\* The values of the program, with their JavaScript type.
BigIntV(n) == <<"bigint", n>>
NumberV(n) == <<"number", n>>
StringV(x) == <<"string", x>>
DateV == <<"date", 0>>
Undefined == <<"undefined", 0>>

\* bigint.toString(): the decimal digits, most significant first.
RECURSIVE DecimalDigits(_)
DecimalDigits(n) ==
    IF n < 10 THEN <<n>> ELSE Append(DecimalDigits(n \div 10), n % 10)

\* BigInt(text) for a text of decimal digits.
RECURSIVE DigitsValue(_)
DigitsValue(d) ==
    IF d = <<>> THEN 0
    ELSE 10 * DigitsValue(SubSeq(d, 1, Len(d) - 1)) + d[Len(d)]

\* JSON.stringify with the replacer of stringifyWithBigInt, on one value: a
\* bigint becomes its decimal text, a Date its ISO text (toJSON); a key whose
\* value is undefined is left out, and reads as undefined after parsing.
JsonOf(x) ==
    CASE x[1] = "bigint" -> StringV(DecimalDigits(x[2]))
      [] x[1] = "date" -> StringV("2026-01-01T00:00:00.000Z")
      [] OTHER -> x

\* stringifyWithBigInt(resumeData) followed by JSON.parse (fs.readJSON).
StringifyWithBigInt(data) ==
    [records |-> [k \in 1..Len(data.records) |->
                    [key \in DOMAIN data.records[k] |-> JsonOf(data.records[k][key])]],
     summary |-> [key \in DOMAIN data.summary |-> JsonOf(data.summary[key])],
     lastProcessedIndex |-> JsonOf(data.lastProcessedIndex),
     timestamp |-> JsonOf(data.timestamp)]

\* The keys convertDistributionStringsToBigInt converts.
AmountKeysWithoutFailed == {"amount", "totalAmount", "distributedAmount"}
AmountKeys == {"amount", "totalAmount", "distributedAmount", "failedAmount"}

\* if (obj.key && typeof obj.key === 'string') obj.key = BigInt(obj.key), for
\* each of the keys: a non-empty string becomes a bigint.
ConvertObject(o) ==
    [k \in DOMAIN o |->
        IF k \in AmountKeys /\ o[k][1] = "string" /\ o[k][2] # <<>>
        THEN BigIntV(DigitsValue(o[k][2])) ELSE o[k]]

\* loadLatestState after readJSON: the timestamp becomes a Date again and
\* convertDistributionStringsToBigInt walks the records and the summary.
ConvertDistributionStringsToBigInt(doc) ==
    [records |-> [k \in 1..Len(doc.records) |-> ConvertObject(doc.records[k])],
     summary |-> ConvertObject(doc.summary),
     lastProcessedIndex |-> doc.lastProcessedIndex,
     timestamp |-> DateV]

\* The resume data saveState builds from its arguments, as JavaScript
\* objects: attempts, error, transactionHash and timestamp of a record,
\* endTime and resumedFrom are undefined until they are set.
ResumeData(snap) ==
    LET JsRecord(r) ==
            [amount |-> BigIntV(r.amount),
             status |-> StringV(r.status),
             attempts |-> IF r.attempts = 0 THEN Undefined ELSE NumberV(r.attempts),
             error |-> IF r.error THEN StringV("Transaction failed") ELSE Undefined,
             transactionHash |-> IF r.transactionHash THEN StringV("0xhash") ELSE Undefined,
             timestamp |-> IF r.timestamp THEN DateV ELSE Undefined]
        sum == snap.summary
    IN  [records |-> [k \in 1..Len(snap.records) |-> JsRecord(snap.records[k])],
         summary |->
            [totalRecords |-> NumberV(sum.totalRecords),
             completed |-> NumberV(sum.completed),
             failed |-> NumberV(sum.failed),
             skipped |-> NumberV(sum.skipped),
             totalAmount |-> BigIntV(sum.totalAmount),
             distributedAmount |-> BigIntV(sum.distributedAmount),
             failedAmount |-> BigIntV(sum.failedAmount),
             startTime |-> DateV,
             endTime |-> IF sum.endTime THEN DateV ELSE Undefined,
             abortedByUser |-> IF sum.abortedByUser THEN NumberV(1) ELSE Undefined,
             resumedFrom |-> IF sum.resumedFrom < 0 THEN Undefined
                             ELSE NumberV(sum.resumedFrom)],
         lastProcessedIndex |-> NumberV(snap.lastProcessedIndex),
         timestamp |-> DateV]

\* The snapshots handed to saveState: up to n records in any status, a cursor
\* within them, and amounts and totals that are zero, one digit or two digits
\* long.
SavedSnapshots(n) ==
    LET amounts == {0, 10 * MaxAmount + 7}
        recordsOf(m) ==
            [1..m -> {[amount |-> a,
                       attempts |-> IF st \in {"failed", "skipped"} THEN 1 ELSE 0,
                       error |-> st = "failed", status |-> st,
                       timestamp |-> st # "pending",
                       transactionHash |-> st = "completed"] :
                          a \in amounts, st \in Statuses}]
        summaryOf(recs, total, distributed, failed) ==
            [InitSummary(recs, 0) EXCEPT
                !.completed =
                    Cardinality({k \in 1..Len(recs) : recs[k].status = "completed"}),
                !.failed = Cardinality({k \in 1..Len(recs) : recs[k].status = "failed"}),
                !.totalAmount = total, !.distributedAmount = distributed,
                !.failedAmount = failed]
    IN  UNION {{Snapshot(recs, summaryOf(recs, total, distributed, failed), cursor) :
                    recs \in recordsOf(m), cursor \in 0..m, total \in amounts,
                    distributed \in {0, MaxAmount}, failed \in {0, MaxAmount}} :
               m \in 0..n}

\* saveState(records, summary, cursor), then loadLatestState().
CallSaveAndLoad ==
    /\ call = NoCall
    /\ pc = "idle"
    /\ IsInitialized
    /\ \E snap \in SavedSnapshots(MaxShort) :
          CallReturns("loadLatestState", <<ResumeData(snap)>>,
                      ConvertDistributionStringsToBigInt(
                          StringifyWithBigInt(ResumeData(snap))))

\* ---- the decimal converter: AI3 text and Shannon integers ----

\* A text is a sequence of one-character strings; a bigint is the sequence of
\* its decimal digits, most significant first, without leading zeros.
SHANNON_DECIMALS == 18
DigitChars == <<"0", "1", "2", "3", "4", "5", "6", "7", "8", "9">>
DigitOf(c) == CHOOSE d \in 0..9 : DigitChars[d + 1] = c
Zeros(n) == [k \in 1..n |-> 0]
ZeroChars(n) == [k \in 1..n |-> "0"]

RECURSIVE StripLeadingZeros(_)
StripLeadingZeros(d) ==
    IF d = <<>> THEN <<0>>
    ELSE IF Len(d) > 1 /\ d[1] = 0 THEN StripLeadingZeros(Tail(d))
    ELSE d

\* BigInt(text) and bigint.toString().
BigIntOfText(text) == StripLeadingZeros([k \in 1..Len(text) |-> DigitOf(text[k])])
TextOfBigInt(n) == [k \in 1..Len(n) |-> DigitChars[n[k] + 1]]

\* a + b on bigints, digit by digit with a carry.
RECURSIVE AddWithCarry(_, _, _)
AddWithCarry(a, b, carry) ==
    IF a = <<>> /\ b = <<>> THEN (IF carry = 0 THEN <<>> ELSE <<carry>>)
    ELSE LET x == IF a = <<>> THEN 0 ELSE a[Len(a)]
             y == IF b = <<>> THEN 0 ELSE b[Len(b)]
             rest(d) == IF d = <<>> THEN <<>> ELSE SubSeq(d, 1, Len(d) - 1)
             sum == x + y + carry
         IN  IF sum < 10 THEN Append(AddWithCarry(rest(a), rest(b), 0), sum)
             ELSE Append(AddWithCarry(rest(a), rest(b), 1), sum - 10)
BigAdd(a, b) == StripLeadingZeros(AddWithCarry(a, b, 0))

\* a >= b on bigints.
RECURSIVE DigitsGeq(_, _)
DigitsGeq(a, b) ==
    IF a = <<>> THEN TRUE
    ELSE IF a[1] # b[1] THEN a[1] > b[1]
    ELSE DigitsGeq(Tail(a), Tail(b))
BigGeq(a, b) ==
    IF Len(a) # Len(b) THEN Len(a) > Len(b) ELSE DigitsGeq(a, b)

\* The test /^\d+(\.\d+)?$/ and the two parts of trimmed.split('.').
PointsOf(text) == {p \in 1..Len(text) : text[p] = "."}
IsDecimalText(text) ==
    /\ text # <<>>
    /\ \A p \in 1..Len(text) :
          text[p] = "." \/ \E d \in 0..9 : DigitChars[d + 1] = text[p]
    /\ Cardinality(PointsOf(text)) <= 1
    /\ \A p \in PointsOf(text) : 1 < p /\ p < Len(text)
WholePart(text) ==
    IF PointsOf(text) = {} THEN text
    ELSE SubSeq(text, 1, (CHOOSE p \in PointsOf(text) : TRUE) - 1)
DecimalPart(text) ==
    IF PointsOf(text) = {} THEN <<>>
    ELSE SubSeq(text, (CHOOSE p \in PointsOf(text) : TRUE) + 1, Len(text))

\* text.padStart(n, '0') and text.replace(/0+$/, '').
PadStartNot(text, n) == text
PadStart(text, n) == IF Len(text) >= n THEN text ELSE ZeroChars(n - Len(text)) \o text
RECURSIVE StripTrailingZeroChars(_)
StripTrailingZeroChars(text) ==
    IF text # <<>> /\ text[Len(text)] = "0"
    THEN StripTrailingZeroChars(SubSeq(text, 1, Len(text) - 1))
    ELSE text

\* What a call gives back: a value, or an error that was thrown.
Gave(v) == <<"return", v>>
Threw(message) == <<"throw", message>>
HasValue(outcome) == outcome[1] = "return"
Given(outcome) == outcome[2]

\* ai3ToShannon(ai3Amount), for an amount without surrounding white space:
\* the fraction is padded with zeros (padEnd) or cut (slice) to
\* SHANNON_DECIMALS digits; the whole part times SHANNON_MULTIPLIER is the
\* whole part followed by SHANNON_DECIMALS zeros.
Ai3ToShannon(text) ==
    IF ~IsDecimalText(text) THEN Threw("Invalid AI3 amount format")
    ELSE LET decimalPart == DecimalPart(text)
             paddedDecimal ==
                IF Len(decimalPart) >= SHANNON_DECIMALS
                THEN SubSeq(decimalPart, 1, SHANNON_DECIMALS)
                ELSE decimalPart \o ZeroChars(SHANNON_DECIMALS - Len(decimalPart))
             whole == BigIntOfText(WholePart(text))
             wholeShannon == IF whole = <<0>> THEN whole ELSE whole \o Zeros(SHANNON_DECIMALS)
         IN  Gave(BigAdd(wholeShannon, BigIntOfText(paddedDecimal)))

\* shannonToAi3(shannonAmount): the quotient by SHANNON_MULTIPLIER is what
\* precedes the last SHANNON_DECIMALS digits, the remainder is those digits.
ShannonToAi3(n) ==
    LET wholePart ==
            IF Len(n) <= SHANNON_DECIMALS THEN <<0>>
            ELSE SubSeq(n, 1, Len(n) - SHANNON_DECIMALS)
        decimalPart ==
            IF Len(n) <= SHANNON_DECIMALS THEN n
            ELSE StripLeadingZeros(SubSeq(n, Len(n) - SHANNON_DECIMALS + 1, Len(n)))
    IN  IF decimalPart = <<0>> THEN TextOfBigInt(wholePart)
        ELSE TextOfBigInt(wholePart) \o <<".">> \o
             StripTrailingZeroChars(PadStart(TextOfBigInt(decimalPart), SHANNON_DECIMALS))

\* The amounts handed to the converter: a whole part of up to MaxWhole digits
\* (leading zeros included), alone or followed by a point and a fraction of
\* zeros with at most one non-zero digit among them, up to MaxExtra digits
\* longer than SHANNON_DECIMALS; and a few texts that are not decimal numbers.
MaxWhole == 2
MaxExtra == 1
AmountTexts(w, n) ==
    LET wholes == UNION {[1..m -> {"0", "7"}] : m \in 1..w}
        fractions ==
            {ZeroChars(m) : m \in 1..n} \cup
            UNION {{ZeroChars(m) \o <<"5">> \o ZeroChars(k) :
                        k \in {j \in {0, 1, n - 1 - m} : m + 1 + j <= n}} :
                   m \in 0..(n - 1)}
    IN  wholes \cup {x \o <<".">> \o y : x \in wholes, y \in fractions} \cup
        {<<>>, <<"7", ".">>, <<".", "5">>, <<"7", ".", "5", ".", "0">>, <<"7", "e", "5">>}

\* The Shannon amounts handed to the formatter: zero, and one or two non-zero
\* digits followed by zeros, shorter and longer than SHANNON_DECIMALS digits.
ShannonAmounts(n) ==
    {<<0>>} \cup
    {h \o Zeros(m) \o t : h \in {<<7>>, <<1, 5>>}, t \in {<<>>, <<3>>, <<2, 0>>}, m \in 0..n}

CallAi3ToShannon ==
    /\ call = NoCall
    /\ pc = "idle"
    /\ IsInitialized
    /\ \E text \in AmountTexts(MaxWhole, SHANNON_DECIMALS + MaxExtra) :
          CallReturns("ai3ToShannon", <<text>>, Ai3ToShannon(text))

CallShannonToAi3 ==
    /\ call = NoCall
    /\ pc = "idle"
    /\ IsInitialized
    /\ \E n \in ShannonAmounts(SHANNON_DECIMALS + MaxExtra) :
          CallReturns("shannonToAi3", <<n>>, ShannonToAi3(n))

\* ---- the resume directory: prune, load, export ----

\* The directories the resume manager may find: up to n files in the order of
\* their names (oldest first), each readable or not. A missing directory reads
\* as the empty one.
Stores(n) ==
    UNION {[1..m -> {Torn, Snapshot(<<>>, NoSummary, 0), Snapshot(<<>>, NoSummary, 1)}] :
              m \in 0..n}

\* What a load returns: null, or the data of the file it read.
Null == <<"null", 0>>
Data(file) == <<"data", file>>

\* A prune that slices the listing from its other end.
ClearOldStatesKeepOldest(store, keepCount, removed) ==
    IF Len(store) <= keepCount THEN store
    ELSE SubSeq(store, 1, keepCount) \o SubSeq(store, keepCount + removed + 1, Len(store))

\* ResumeManager.clearOldStates(keepCount): nothing when the listing has at
\* most keepCount names; otherwise the names after the first keepCount of the
\* newest-first listing are removed one by one, newest of them first. The
\* first removal that fails ends the call (the error is swallowed); removed
\* is the number of removals done.
ClearOldStates(store, keepCount, removed) ==
    IF Len(store) <= keepCount THEN store
    ELSE SubSeq(store, 1, Len(store) - keepCount - removed)
         \o SubSeq(store, Len(store) - keepCount + 1, Len(store))

CallClearOldStates ==
    /\ call = NoCall
    /\ pc = "idle"
    /\ IsInitialized
    /\ \E store \in Stores(MaxFiles), keepCount \in 0..(MaxFiles + 1) :
       \E removed \in 0..(IF Len(store) <= keepCount THEN 0 ELSE Len(store) - keepCount) :
          CallReturns("clearOldStates", <<store, keepCount, removed>>,
                      ClearOldStates(store, keepCount, removed))

\* loadLatestState() on a directory: null without a file and when the newest
\* file cannot be read or parsed (every error is caught).
CallLoadLatestState ==
    /\ call = NoCall
    /\ pc = "idle"
    /\ IsInitialized
    /\ \E store \in Stores(MaxFiles) :
          CallReturns("loadLatest", <<store>>,
                      IF HasLatest(store) THEN Gave(Data(LoadLatestState(store))) ELSE Gave(Null))

\* ResumeManager.loadSpecificState(filename): null when the file does not
\* exist or cannot be read or parsed. A name is the position of the file in
\* the directory; Len(store) + 1 names no file.
LoadSpecificState(store, name) ==
    IF name \in 1..Len(store) /\ Readable(store[name]) THEN Gave(Data(store[name])) ELSE Gave(Null)

CallLoadSpecificState ==
    /\ call = NoCall
    /\ pc = "idle"
    /\ IsInitialized
    /\ \E store \in Stores(MaxFiles) : \E name \in 1..(Len(store) + 1) :
          CallReturns("loadSpecificState", <<store, name>>, LoadSpecificState(store, name))

\* ResumeManager.exportResumeData(outputPath): throws 'No resume data
\* available' when loadLatestState returned null, and rethrows the error of
\* a failed write.
ExportResumeData(store, out) ==
    IF ~HasLatest(store) THEN Threw("No resume data available")
    ELSE IF ~Written(out) THEN Threw("write failed")
    ELSE Gave(Undefined)

CallExportResumeData ==
    /\ call = NoCall
    /\ pc = "idle"
    /\ IsInitialized
    /\ \E store \in Stores(MaxFiles), out \in {"written", "failed", "torn"} :
          CallReturns("exportResumeData", <<store, out>>, ExportResumeData(store, out))

\* ---- CSV validation ----

\* ai3ToShannons of the SDK: the conversion of ai3ToShannon, except that a
\* fraction of more than SHANNON_DECIMALS digits is refused.
Ai3ToShannonsTruncating(text) ==
    IF ~IsDecimalText(text) THEN Threw("invalid numeric string") ELSE Ai3ToShannon(text)

Ai3ToShannons(text) ==
    IF ~IsDecimalText(text) THEN Threw("invalid numeric string")
    ELSE IF Len(DecimalPart(text)) > SHANNON_DECIMALS THEN Threw("too many decimal places")
    ELSE Ai3ToShannon(text)

\* text.trim().
RECURSIVE Trim(_)
Trim(text) ==
    IF text # <<>> /\ text[1] = " " THEN Trim(Tail(text))
    ELSE IF text # <<>> /\ text[Len(text)] = " " THEN Trim(SubSeq(text, 1, Len(text) - 1))
    ELSE text

\* The addresses the SS58 check accepts: one of the Autonomys network (prefix
\* "su") and one of a Substrate network (prefix "5").
IsValidAutonomysAddress(address) == address \in {<<"s", "u", "A">>, <<"5", "B">>}

\* /^0+(\.0+)?$/ on a decimal text: every digit is 0.
IsZeroText(text) ==
    \A p \in 1..Len(text) : text[p] \in {"0", "."}

IsValidAmountZeroAllowed(amount) ==
    /\ amount # <<>>
    /\ IsDecimalText(Trim(amount))

IsValidAmount(amount) ==
    /\ amount # <<>>
    /\ IsDecimalText(Trim(amount))
    /\ ~IsZeroText(Trim(amount))

\* The existential deposit, in Shannon.
EXISTENTIAL_DEPOSIT_SHANNON == <<1>> \o Zeros(12)

MeetsExistentialDepositAlways(shannons) == TRUE
MeetsExistentialDeposit(shannons) == BigGeq(shannons, EXISTENTIAL_DEPOSIT_SHANNON)

\* An error or a warning of the result: the line it is about (0 for the
\* file as a whole), what it says, and the text it quotes.
Message(line, what, detail) == <<line, what, detail>>

\* addressMap.has(address) ? addressMap.get(address).push(line)
\*                          : addressMap.set(address, [line])
TrackOnlyFirst(addressMap, address, line) ==
    IF \E k \in 1..Len(addressMap) : addressMap[k][1] = address THEN addressMap
    ELSE Append(addressMap, <<address, <<line>>>>)
Track(addressMap, address, line) ==
    IF \E k \in 1..Len(addressMap) : addressMap[k][1] = address
    THEN [k \in 1..Len(addressMap) |->
            IF addressMap[k][1] = address
            THEN <<address, Append(addressMap[k][2], line)>> ELSE addressMap[k]]
    ELSE Append(addressMap, <<address, <<line>>>>)

\* stream.on('data'): one row of the file, with its line number. A row
\* whose amount converted gets a warning when it is below the existential
\* deposit, below 1000 Shannon, or above ai3ToShannons('1000000').
OnData(acc, row, line) ==
    LET address == Trim(row[1])
        amount == Trim(row[2])
        refused(what, detail) ==
            [acc EXCEPT !.errors = Append(@, Message(line, what, detail))]
        millionAI3InShannon == Given(Ai3ToShannons(<<"1", "0", "0", "0", "0", "0", "0">>))
        rowWarnings(shannonAmount) ==
            (IF ~MeetsExistentialDeposit(shannonAmount)
             THEN <<Message(line, "below existential deposit", amount)>> ELSE <<>>) \o
            (IF ~BigGeq(shannonAmount, <<1, 0, 0, 0>>)
             THEN <<Message(line, "Very small amount", amount)>> ELSE <<>>) \o
            (IF ~BigGeq(millionAI3InShannon, shannonAmount)
             THEN <<Message(line, "Large amount", amount)>> ELSE <<>>)
    IN  IF address = <<>> THEN refused("Address is required", <<>>)
        ELSE IF amount = <<>> THEN refused("Amount is required", <<>>)
        ELSE IF ~IsValidAutonomysAddress(address)
        THEN refused("Invalid SS58 address format", address)
        ELSE IF ~IsValidAmount(amount) THEN refused("Invalid amount format", amount)
        ELSE IF ~HasValue(Ai3ToShannons(amount))
        THEN refused("Parsing error", Given(Ai3ToShannons(amount)))
        ELSE LET shannonAmount == Given(Ai3ToShannons(amount))
             IN  [acc EXCEPT
                    !.warnings = @ \o rowWarnings(shannonAmount),
                    !.addressMap = Track(@, address, line),
                    !.records = Append(@, [address |-> address, amount |-> shannonAmount,
                                            status |-> "pending"]),
                    !.totalAmountShannon = BigAdd(@, shannonAmount)]

RECURSIVE AfterRows(_, _)
AfterRows(rows, n) ==
    IF n = 0
    THEN [errors |-> <<>>, warnings |-> <<>>, records |-> <<>>, addressMap |-> <<>>,
          totalAmountShannon |-> <<0>>]
    ELSE OnData(AfterRows(rows, n - 1), rows[n], n)

\* stream.on('end'): the duplicates, the errors of the file as a whole and
\* the result.
DuplicatesOf(addressMap) ==
    SelectSeq(addressMap, LAMBDA e : Len(e[2]) > 1)

ValidateCSV(rows) ==
    LET acc == AfterRows(rows, Len(rows))
        duplicates == DuplicatesOf(acc.addressMap)
        errors == acc.errors \o
            (IF Len(acc.records) = 0
             THEN <<Message(0, "No valid records found in CSV file", <<>>)>> ELSE <<>>) \o
            (IF acc.totalAmountShannon = <<0>>
             THEN <<Message(0, "Total distribution amount is zero", <<>>)>> ELSE <<>>)
    IN  [isValid |-> Len(errors) = 0,
         errors |-> errors,
         warnings |-> acc.warnings \o
            [k \in 1..Len(duplicates) |->
                Message(0, "Duplicate address found", duplicates[k][1])],
         duplicates |-> duplicates,
         totalAmount |-> acc.totalAmountShannon,
         recordCount |-> Len(acc.records),
         records |-> acc.records]

\* parseValidatedCSV: the rows with an address and an amount that pass the
\* two tests, each with the number of its row. The 'data' handler converts
\* the amount without a try/catch, so the first row whose conversion throws
\* ends the call with that error instead of the records.
RECURSIVE ParseValidatedCSV(_)
ParseValidatedCSV(rows) ==
    IF rows = <<>> THEN Gave(<<>>)
    ELSE LET n == Len(rows)
             address == Trim(rows[n][1])
             amount == Trim(rows[n][2])
             before == ParseValidatedCSV(SubSeq(rows, 1, n - 1))
         IN  IF ~HasValue(before) THEN before
             ELSE IF address # <<>> /\ amount # <<>> /\ IsValidAutonomysAddress(address)
                     /\ IsValidAmount(amount)
             THEN LET shannons == Ai3ToShannons(amount)
                  IN  IF HasValue(shannons)
                      THEN Gave(Append(Given(before),
                                       [address |-> address, amount |-> Given(shannons),
                                        status |-> "pending", sourceRowNumber |-> n]))
                      ELSE shannons
             ELSE before

\* The rows of the files handed to the validator: the two addresses with an
\* ordinary amount (one of them also with white space around it), an address
\* that fails the check, an empty address, and one address with amounts that
\* are zero in several spellings, malformed, missing, longer than
\* SHANNON_DECIMALS fractional digits, or at and beyond the thresholds of the
\* warnings.
MaxRows == 2
Amount(whole, zeros, digits) == whole \o <<".">> \o ZeroChars(zeros) \o digits
CsvRows ==
    {<<<<"s", "u", "A">>, <<"1">>>>, <<<<" ", "s", "u", "A", " ">>, <<"7", ".", "5">>>>,
     <<<<"5", "B">>, <<"1">>>>, <<<<"b", "a", "d">>, <<"1">>>>, <<<<>>, <<"1">>>>,
     <<<<"5", "B">>, <<>>>>, <<<<"5", "B">>, <<"7", "e", "5">>>>,
     <<<<"5", "B">>, <<"0">>>>, <<<<"5", "B">>, <<"0", "0", ".", "0">>>>,
     <<<<"5", "B">>, Amount(<<"0">>, SHANNON_DECIMALS, <<>>)>>,
     <<<<"5", "B">>, Amount(<<"0">>, SHANNON_DECIMALS, <<"5">>)>>,
     <<<<"5", "B">>, Amount(<<"1">>, SHANNON_DECIMALS - 1, <<"5", "9">>)>>,
     <<<<"5", "B">>, Amount(<<"0">>, 5, <<"1">>)>>,
     <<<<"5", "B">>, Amount(<<"0">>, 6, <<"9">>)>>,
     <<<<"5", "B">>, Amount(<<"0">>, 14, <<"1">>)>>,
     <<<<"5", "B">>, Amount(<<"0">>, 15, <<"9", "9", "9">>)>>,
     <<<<"5", "B">>, <<"1", "0", "0", "0", "0", "0", "0">>>>,
     <<<<"5", "B">>, Amount(<<"1", "0", "0", "0", "0", "0", "0">>, SHANNON_DECIMALS - 1, <<"1">>)>>}
CsvFiles(n) == UNION {[1..m -> CsvRows] : m \in 0..n}

CallValidateCSV ==
    /\ call = NoCall
    /\ pc = "idle"
    /\ IsInitialized
    /\ \E rows \in CsvFiles(MaxRows) :
          CallReturns("validateCSV", <<rows>>, ValidateCSV(rows))

\* parseValidatedCSV on any file. An error thrown in the 'data' handler either
\* reaches the stream's 'error' listener, which rejects the promise, or stays
\* uncaught; the records are returned in neither case.
CallParseValidatedCSV ==
    /\ call = NoCall
    /\ pc = "idle"
    /\ IsInitialized
    /\ \E rows \in CsvFiles(MaxRows) :
          LET parsed == ParseValidatedCSV(rows)
          IN  \E result \in (IF HasValue(parsed) THEN {parsed}
                              ELSE {parsed, <<"uncaught", Given(parsed)>>}) :
                  CallReturns("parseValidatedCSV", <<rows>>, result)

\* The engine as a library with its default configuration, before any call.
InitCalls == InitEngine({"default"}, 0, NoWait) /\ batchSize = 1

NextCalls ==
    \/ Initialize
    \/ CallValidateSufficientBalance
    \/ CallAi3ToShannon
    \/ CallShannonToAi3
    \/ CallValidateCSV
    \/ CallParseValidatedCSV

\* The functions of the engine and of the validator, called on any arguments.
SpecCalls == InitCalls /\ [][NextCalls]_vars

NextResume ==
    \/ Initialize
    \/ CallSaveAndLoad
    \/ CallClearOldStates
    \/ CallLoadLatestState
    \/ CallLoadSpecificState
    \/ CallExportResumeData

\* The operations of the resume manager, called on any snapshot and directory.
SpecResume == InitCalls /\ [][NextResume]_vars

TypeOK ==
    /\ pc \in Running \cup Left \cup {"idle", "activated", "connected", "ended"}
    /\ isConnected \in BOOLEAN /\ api \in BOOLEAN
    /\ \A k \in 1..Len(records) : records[k].status \in Statuses

InRun == pc \in Running \cup Returned

\* C1: after an interruption and a resume from the newest snapshot, no record
\* whose transfer already succeeded is transferred again, except the record
\* the interrupted run was working on last (stated for behaviours in which
\* every snapshot write succeeded).
C1_CompletedNotRepeated ==
    (pc = "submit" /\ ~ioFailed) => (i \notin succeeded \/ i \in killedAt)

\* C2: completed + failed + skipped never exceeds totalRecords.
C2_CountersBounded ==
    InRun => summary.completed + summary.failed + summary.skipped <= summary.totalRecords

\* C3: in fresh and in resumed runs, distributedAmount is the sum of the
\* amounts of the records whose status is completed.
C3_DistributedIsSumOfCompleted ==
    InRun => summary.distributedAmount = SumCompleted(records)

\* C4: a pause at index i checkpoints the cursor i (not i + 1) with record i
\* failed, returns with endTime and abortedByUser unset, attempts no further
\* transfer and clears no snapshot.
C4_PausedState ==
    pc = "paused" =>
        /\ io.op = "save" /\ io.cursor = i
        /\ i \in 0..(Len(records) - 1) /\ Rec(i).status = "failed"
        /\ ~summary.endTime /\ ~summary.abortedByUser
        /\ io.ok => /\ HasLatest(snapshots)
                    /\ LoadLatestState(snapshots) = Snapshot(records, summary, i)

C4_PauseStep ==
    /\ (pc = "decide" /\ pc' = "paused") =>
          /\ Len(snapshots') >= Len(snapshots)
          /\ attemptLog' = attemptLog /\ chain' = chain
          /\ records' = records /\ summary' = summary
    /\ pc = "paused" => last' \in {"Exit", "Recall"}

C4_Pause == [](C4_PausedState) /\ [][C4_PauseStep]_vars

C4_Witness == last = "DecidePause" /\ pc = "paused" /\ io.ok /\ i >= 1

\* C5: an abort at index i sets abortedByUser and endTime, checkpoints the
\* cursor i + 1, returns the summary, attempts no further transfer and clears
\* no snapshot.
C5_AbortedState ==
    pc = "aborted" =>
        /\ summary.abortedByUser /\ summary.endTime
        /\ io.op = "save" /\ io.cursor = i + 1
        /\ io.ok => /\ HasLatest(snapshots)
                    /\ LoadLatestState(snapshots) = Snapshot(records, summary, i + 1)

C5_AbortStep ==
    /\ (pc = "decide" /\ pc' = "aborted") =>
          /\ Len(snapshots') >= Len(snapshots)
          /\ attemptLog' = attemptLog /\ chain' = chain
          /\ records' = records
    /\ pc = "aborted" => last' \in {"Exit", "Recall"}

C5_Abort == [](C5_AbortedState) /\ [][C5_AbortStep]_vars

C5_Witness == last = "DecideAbort" /\ pc = "aborted" /\ io.ok /\ i >= 1

\* C6: the three outcomes are told apart by endTime and abortedByUser, and
\* normal completion removes every snapshot: loadLatest finds none and the
\* list is empty.
C6_Outcomes ==
    /\ pc = "paused" => (~summary.endTime /\ ~summary.abortedByUser)
    /\ pc = "aborted" => (summary.endTime /\ summary.abortedByUser)
    /\ pc = "done" =>
          /\ summary.endTime /\ ~summary.abortedByUser
          /\ io.op = "clear"
          /\ io.ok => /\ snapshots = <<>>
                      /\ ~HasLatest(snapshots)
                      /\ ListResumeFiles(snapshots) = <<>>

C6_Witness ==
    pc = "done" /\ io.op = "clear" /\ io.ok /\ ~ioFailed /\ Len(records) >= 2

\* C7: a resumed run whose checkpoint has a failed record at the cursor resets
\* it to pending with the error cleared and the attempts kept, and attempts it
\* before any later record.
C7_ResumeRetriesCursor ==
    (InRun /\ entry.kind = "resume" /\ entry.from < Len(entry.records)
           /\ entry.records[entry.from + 1].status = "failed") =>
        /\ attemptLog # <<>> => attemptLog[1] = entry.from
        /\ (i > entry.from \/ pc \in Returned) => attemptLog # <<>>
        /\ (attemptLog = <<>> /\ pc = "loop") =>
              /\ i = entry.from
              /\ Rec(i).status \in {"failed", "pending"}
              /\ Rec(i).attempts = entry.records[entry.from + 1].attempts
              /\ Rec(i).status = "pending" => ~Rec(i).error
        /\ (pc = "submit" /\ Len(attemptLog) = 1) =>
              /\ Rec(i).status = "processing" /\ ~Rec(i).error
              /\ Rec(i).attempts = entry.records[entry.from + 1].attempts

C7_Witness ==
    /\ pc = "submit" /\ entry.kind = "resume" /\ Len(attemptLog) = 1
    /\ entry.from >= 1 /\ entry.from < Len(entry.records)
    /\ entry.records[entry.from + 1].status = "failed"
    /\ entry.records[entry.from + 1].attempts >= 1

\* C8: when a paused run is resumed, every record that is failed in the
\* snapshot it resumes from, whatever its index, is retried by the resumed run
\* (stated at the normal completion of the resumed run).
C8_AllFailedRetried ==
    (pc = "done" /\ entry.kind = "resume" /\ prevEnd = "paused") =>
        \A k \in 1..Len(entry.records) :
            entry.records[k].status = "failed" =>
                \E j \in 1..Len(attemptLog) : attemptLog[j] = k - 1

\* C9: a record that is completed when the loop reaches it gets no transfer
\* and keeps every field; skipped grows by one and no other summary field
\* changes.
C9_SkipStep ==
    (pc = "loop" /\ i < Len(records) /\ Rec(i).status = "completed"
                 /\ last' # "Kill") =>
        /\ records' = records
        /\ attemptLog' = attemptLog /\ chain' = chain
        /\ summary' = [summary EXCEPT !.skipped = @ + 1]
        /\ pc' = "loop"

C9_CompletedSkipped == [][C9_SkipStep]_vars

C9_Witness == last = "SkipCompleted" /\ summary.skipped >= 1 /\ pc = "loop"

\* C10: distribute() changes a status only pending->processing,
\* processing->completed, processing->failed or failed->pending (the last
\* when the loop comes to a failed record it has not attempted in this call,
\* or right after a retry); completed never changes again; skipped is never
\* assigned.
StatusChanges ==
    {<<"pending", "processing">>, <<"processing", "completed">>,
     <<"processing", "failed">>, <<"failed", "pending">>}

C10_Step ==
    (Len(records') = Len(records)) =>
        \A k \in 1..Len(records) :
            /\ records'[k].status # records[k].status =>
                  /\ <<records[k].status, records'[k].status>> \in StatusChanges
                  /\ k = i + 1
            /\ (records[k].status = "failed" /\ records'[k].status = "pending") =>
                  /\ pc = "loop" /\ pc' = "loop"
                  /\ \/ /\ entry.records[k].status = "failed"
                        /\ \A j \in 1..Len(attemptLog) : attemptLog[j] # k - 1
                     \/ /\ attemptLog # <<>>
                        /\ LastOf(attemptLog) = k - 1
                        /\ last = "PeriodicCheckpoint"
            /\ records[k].status = "completed" => records'[k] = records[k]

C10_NeverSkipped == \A k \in 1..Len(records) : records[k].status # "skipped"

C10_StatusTransitions == [](C10_NeverSkipped) /\ [][C10_Step]_vars

C10_Witness ==
    /\ last = "ResetFailed" /\ entry.kind = "recall" /\ summary.skipped >= 1
    /\ Rec(i).status = "pending" /\ Rec(i).attempts >= 1

\* C11: distribute() is sequential: at most one transfer is outstanding, and
\* the indices on which transfers are attempted never decrease, start at or
\* after resumeFromIndex, and pass over completed records only.
C11_Sequential ==
    InRun =>
        /\ Cardinality(inFlight) <= 1
        /\ \A j \in 1..Len(attemptLog) : attemptLog[j] >= entry.from
        /\ \A j \in 1..(Len(attemptLog) - 1) :
              /\ attemptLog[j] <= attemptLog[j + 1]
              /\ \A k \in (attemptLog[j] + 1)..(attemptLog[j + 1] - 1) :
                    Rec(k).status = "completed"

C11_Witness ==
    /\ pc = "submit" /\ inFlight = {i}
    /\ \E j \in 1..(Len(attemptLog) - 1) : attemptLog[j + 1] > attemptLog[j] + 1

\* C12: after the failure policy answers retry for the record at index i, the
\* next transfer attempted is for record i again, and the failed attempt has
\* raised the record's attempts counter by exactly one.
C12_RetriedNext ==
    \A a \in 1..Len(answers) :
        answers[a].action = "retry" =>
            /\ attemptLog[answers[a].attempt] = answers[a].index
            /\ Len(attemptLog) > answers[a].attempt =>
                  attemptLog[answers[a].attempt + 1] = answers[a].index

C12_Step ==
    /\ (pc \in {"submit", "confirm"} /\ pc' = "decide") =>
          /\ i' = i
          /\ records'[i + 1].attempts = records[i + 1].attempts + 1
    /\ (pc = "decide" /\ last' = "DecideRetry") =>
          /\ records' = records
          /\ LastOf(answers').attempts = Rec(i).attempts
    /\ (answers # <<>> /\ LastOf(answers).action = "retry"
          /\ LastOf(answers).attempt = Len(attemptLog) /\ Len(records') = Len(records)) =>
          records'[LastOf(answers).index + 1].attempts = LastOf(answers).attempts

C12_Retry == [](C12_RetriedNext) /\ [][C12_Step]_vars

C12_Witness ==
    /\ pc = "submit" /\ answers # <<>> /\ LastOf(answers).action = "retry"
    /\ LastOf(answers).index >= 1 /\ LastOf(answers).attempts = 1
    /\ Len(attemptLog) = LastOf(answers).attempt + 1

\* C13: after the failure policy answers skip for the record at index i, the
\* record stays failed for the rest of the run, no further transfer is
\* attempted for it, and the next transfer attempted is for the next record
\* after i that is not completed.
C13_SkippedStaysFailed ==
    \A a \in 1..Len(answers) :
        answers[a].action = "skip" =>
            /\ records[answers[a].index + 1].status = "failed"
            /\ records[answers[a].index + 1].attempts = answers[a].attempts
            /\ \A j \in (answers[a].attempt + 1)..Len(attemptLog) :
                  attemptLog[j] # answers[a].index
            /\ Len(attemptLog) > answers[a].attempt =>
                  /\ attemptLog[answers[a].attempt + 1] > answers[a].index
                  /\ \A k \in (answers[a].index + 1)..(attemptLog[answers[a].attempt + 1] - 1) :
                        Rec(k).status = "completed"

C13_Witness ==
    /\ pc = "done" /\ answers # <<>> /\ answers[1].action = "skip"
    /\ Len(attemptLog) > answers[1].attempt
    /\ attemptLog[answers[1].attempt + 1] = answers[1].index + 1
    /\ Rec(answers[1].index).status = "failed"

\* C14: every run of distribute() writes a checkpoint holding the cursor
\* resumeFromIndex and the records as they were passed in before it submits
\* its first transfer (the write itself may fail; a failed write is swallowed).
C14_EntryStep ==
    (pc \in {"idle", "paused"} /\ pc' = "loop") =>
        /\ io'.op = "save" /\ io'.cursor = entry'.from
        /\ records' = entry'.records /\ i' = entry'.from
        /\ attemptLog' = <<>> /\ inFlight' = {}
        /\ io'.ok =>
              /\ HasLatest(snapshots')
              /\ LoadLatestState(snapshots').records = entry'.records
              /\ LoadLatestState(snapshots').lastProcessedIndex = entry'.from

C14_FirstSubmit ==
    (pc = "submit" /\ Len(attemptLog) = 1 /\ ~ioFailed) =>
        /\ HasLatest(snapshots)
        /\ LoadLatestState(snapshots).records = entry.records
        /\ LoadLatestState(snapshots).lastProcessedIndex = entry.from

C14_EntryCheckpoint == [](C14_FirstSubmit) /\ [][C14_EntryStep]_vars

C14_Witness ==
    /\ pc = "submit" /\ Len(attemptLog) = 1 /\ ~ioFailed
    /\ entry.kind = "resume" /\ entry.from >= 1 /\ Len(snapshots) >= 2

\* C15: whenever the record at an index p that is a multiple of batchSize has
\* been processed and the run continues (after a success, a skip or a retry),
\* a checkpoint with cursor p + 1 is written before the next transfer attempt.
C15_Step ==
    (pc = "periodic" /\ pc' = "loop" /\ JsRem(LastOf(attemptLog), batchSize) = 0) =>
        /\ io'.op = "save"
        /\ io'.cursor = LastOf(attemptLog) + 1

C15_PeriodicCheckpoint == [][C15_Step]_vars

\* C16: a failed checkpoint write never aborts or alters the run: records and
\* summary are what the step makes them without the write, the snapshots
\* written before are unchanged, and the loop goes on as after a good write.
KeepsOlderSnapshots ==
    /\ Len(snapshots') >= Len(snapshots)
    /\ \A k \in 1..Len(snapshots) : snapshots'[k] = snapshots[k]

C16_Step ==
    (io'.op = "save" /\ ~io'.ok) =>
        /\ KeepsOlderSnapshots
        /\ pc = "periodic" =>
              /\ records' = records /\ summary' = summary
              /\ pc' = "loop" /\ i' = NextIndex(i)
        /\ pc = "decide" =>
              /\ records' = records /\ i' = i
              /\ pc' \in {"paused", "aborted"}
              /\ pc' = "paused" => summary' = summary
              /\ pc' = "aborted" => summary' = AbortedSummary(summary)
        /\ pc \in {"idle", "paused"} =>
              /\ pc' = "loop" /\ records' = entry'.records
              /\ summary' = InitSummary(entry'.records, entry'.from)

C16_WriteFailureSwallowed == [][C16_Step]_vars

\* C17: checkpoint writes are append-only: every successful checkpoint call
\* adds one snapshot and leaves the snapshots of earlier calls as they were.
C17_Step ==
    (io'.op = "save" /\ io'.ok) =>
        /\ Len(snapshots') = Len(snapshots) + 1
        /\ \A k \in 1..Len(snapshots) : snapshots'[k] = snapshots[k]

C17_AppendOnly == [][C17_Step]_vars

\* C18 (as stated): loadLatest returns the state written by the most recent
\* successful checkpoint call, and none when no snapshot exists; list returns
\* all identifiers newest first.
ListNewestFirst ==
    /\ Len(ListResumeFiles(snapshots)) = Len(snapshots)
    /\ \A k \in 1..Len(snapshots) : ListResumeFiles(snapshots)[k] = Len(snapshots) + 1 - k

C18_NoneWhenEmpty == snapshots = <<>> => ~HasLatest(snapshots)

C18_GoodWriteIsLatest ==
    (io'.op = "save" /\ io'.ok) =>
        /\ HasLatest(snapshots')
        /\ LoadLatestState(snapshots') = Snapshot(records', summary', io'.cursor)

C18_OtherStepsKeepStore ==
    (io'.op \notin {"save", "clear"}) => snapshots' = snapshots

C18_FailedWriteKeepsLatest ==
    (io'.op = "save" /\ ~io'.ok /\ HasLatest(snapshots)) =>
        /\ HasLatest(snapshots')
        /\ LoadLatestState(snapshots') = LoadLatestState(snapshots)

C18_LatestIsLastSuccessful ==
    /\ [](C18_NoneWhenEmpty /\ ListNewestFirst)
    /\ [][C18_GoodWriteIsLatest /\ C18_OtherStepsKeepStore
            /\ C18_FailedWriteKeepsLatest]_vars

\* C18 (amended): loadLatest selects the file with the greatest identifier; it
\* returns its content when the file is readable, which after a successful
\* checkpoint call is the state that call wrote, and none when no file exists
\* or the newest file is unreadable; a failed write leaves the store as it
\* was or leaves an unreadable newest file. list returns all identifiers
\* newest first.
C18_FailedWriteOutcome ==
    (io'.op = "save" /\ ~io'.ok) =>
        \/ snapshots' = snapshots
        \/ /\ snapshots' # <<>>
           /\ ~Readable(LastOf(snapshots')) /\ ~HasLatest(snapshots')

C18_LatestReadable ==
    HasLatest(snapshots) <=>
        (snapshots # <<>> /\ Readable(snapshots[ListResumeFiles(snapshots)[1]]))

C18_LatestIsGreatestReadable ==
    /\ [](C18_NoneWhenEmpty /\ ListNewestFirst /\ C18_LatestReadable)
    /\ [][C18_GoodWriteIsLatest /\ C18_OtherStepsKeepStore
            /\ C18_FailedWriteOutcome]_vars

C18_Witness ==
    /\ Len(snapshots) >= 2 /\ io.op = "save" /\ ~io.ok
    /\ ~Readable(LastOf(snapshots)) /\ Readable(snapshots[1])
    /\ ~HasLatest(snapshots)

\* C19: no transfer failure leaves distribute(): whether executeTransfer
\* fails before the chain accepted the transaction or the confirmation wait
\* times out, the record ends the attempt failed with its error set, failed
\* and failedAmount are updated, nothing else changes, and the failure policy
\* is consulted next; distribute() throws only before its first effect or
\* when the injected handler itself throws.
C19_Step ==
    /\ (pc \in {"submit", "confirm"} /\ last' \in {"SubmitFail", "ConfirmTimeout"}) =>
          /\ pc' = "decide" /\ i' = i /\ inFlight' = {}
          /\ records'[i + 1].status = "failed" /\ records'[i + 1].error
          /\ records'[i + 1].attempts = Rec(i).attempts + 1
          /\ \A k \in 1..Len(records) : k # i + 1 => records'[k] = records[k]
          /\ summary'.failed = summary.failed + 1
          /\ summary'.failedAmount = summary.failedAmount + Rec(i).amount
          /\ summary'.completed = summary.completed
          /\ summary'.distributedAmount = summary.distributedAmount
          /\ summary'.endTime = summary.endTime
    /\ (pc \in {"submit", "confirm"}) =>
          /\ pc' \in {"confirm", "periodic", "decide", "idle"}
          /\ pc' = "idle" => last' = "Kill"
    /\ pc = "decide" =>
          last' \in {"DecideRetry", "DecideSkip", "DecidePause", "DecideAbort", "DecideThrows",
                     "Kill"}
    /\ pc' = "threw" => pc \in {"idle", "paused"} \/ last' = "DecideThrows"

C19_FailuresRecovered == [][C19_Step]_vars

C19_Witness ==
    /\ pc = "decide" /\ last = "ConfirmTimeout" /\ i >= 1
    /\ Rec(i).status = "failed" /\ Rec(i).error /\ summary.failedAmount = Rec(i).amount

\* C20: distribute() on an engine that was never initialized or is already
\* disconnected throws and has no effect: no checkpoint, no change to a record
\* or a snapshot, no transfer; a call that gets into the loop was made on a
\* connected engine.
C20_Step ==
    /\ (pc \in {"idle", "paused"} /\ pc' \in {"loop", "threw"}) =>
          (pc' = "threw" <=> ~(isConnected /\ api))
    /\ (pc' = "threw" /\ pc \notin {"decide", "threw"}) =>
          /\ pc \in {"idle", "paused"}
          /\ last' = "DistributeNotInitialized"
          /\ records' = records /\ summary' = summary /\ snapshots' = snapshots
          /\ chain' = chain /\ attemptLog' = attemptLog /\ inFlight' = inFlight
          /\ io'.op = "none"
          /\ isConnected' = isConnected /\ api' = api

C20_NotInitializedThrows == [][C20_Step]_vars

C20_Witness ==
    /\ pc = "threw" /\ last = "DistributeNotInitialized"
    /\ api /\ ~isConnected
    /\ snapshots # <<>> /\ Len(records) >= 2 /\ Rec(i).status = "failed"

\* C21: without an injected handler the policy answers retry while the
\* record's attempts is below 3 and skip otherwise; every distribute() call
\* makes at most 3 transfer attempts per record and, whatever the transfers
\* do, ends by normal completion with endTime set.
AttemptsOn(k) == Cardinality({n \in 1..Len(attemptLog) : attemptLog[n] = k})

C21_Bounded ==
    /\ \A n \in 1..Len(answers) :
          answers[n].action = (IF answers[n].attempts < 3 THEN "retry" ELSE "skip")
    /\ \A k \in 0..(Len(records) - 1) : AttemptsOn(k) <= 3
    /\ pc \in Ended => pc = "done" /\ summary.endTime

C21_Terminates == (pc \in Running) ~> (pc = "done")

C21_DefaultTerminates == []C21_Bounded /\ C21_Terminates

C21_Witness ==
    /\ pc = "done"
    /\ summary.endTime
    /\ \E k \in 0..(Len(records) - 1) :
          /\ AttemptsOn(k) = 3
          /\ Rec(k).status = "failed"
          /\ \E n \in 1..Len(answers) :
                answers[n].index = k /\ answers[n].action = "skip"

\* C22: the confirmation wait never hangs. It ends when confirmationBlocks
\* new headers have been observed (success), when the timeout fires, or when
\* the subscription cannot be established; on timeout the header
\* subscription is unsubscribed, and both failures are reported to the loop
\* as a failed transfer.
C22_WaitEnded == pc = "confirm" /\ pc' # "confirm"

C22_BySuccess ==
    /\ wait'.promise = "resolved"
    /\ wait'.heads >= wait.target
    /\ records'[i + 1].status = "completed"

C22_ByTimeout ==
    /\ wait.timer = "armed"
    /\ wait'.timer = "fired"
    /\ wait'.promise = "rejected"
    /\ wait'.sub = "closed"
    /\ pc' = "decide"
    /\ records'[i + 1].status = "failed"

C22_BySubscribeFailure ==
    /\ wait.sub = "pending"
    /\ wait'.sub = "none"
    /\ wait'.timer = "none"
    /\ wait'.promise = "rejected"
    /\ pc' = "decide"
    /\ records'[i + 1].status = "failed"

C22_TimeoutStep ==
    (wait.promise = "pending" /\ wait.timer = "armed" /\ wait'.timer = "fired")
        => C22_ByTimeout

C22_Hangs == pc = "confirm"

C22_NeverHangs == C22_Hangs ~> ~C22_Hangs

C23_ReleasedOnEveryExit == pc = "ended" => ~conn /\ ~isConnected

\* C24: validateSufficientBalance returns requiredAmount = T + G,
\* sufficient = (B >= T + G), and a shortfall of (T + G) - B exactly when
\* sufficient is false; the shortfall is absent otherwise.
C24_BalanceCheck ==
    call.op = "validateSufficientBalance" =>
        LET b == call.args[1]
            t == call.args[2]
            g == call.args[3]
            r == call.result
        IN  /\ r.requiredAmount = t + g
            /\ r.currentBalance = b
            /\ r.sufficient = (b >= t + g)
            /\ r.sufficient => r.shortfall = <<>>
            /\ ~r.sufficient => r.shortfall = <<(t + g) - b>>

C24_Witness ==
    /\ call.op = "validateSufficientBalance"
    /\ call.args[1] = call.args[2] + call.args[3]
    /\ call.args[3] > 0
    /\ call.result.sufficient
    /\ call.result.shortfall = <<>>

\* C25: loading the snapshot a checkpoint wrote yields the same record
\* amounts, statuses, attempts and transaction identifiers, the same summary
\* counters and totals (zero included) and the same cursor, with every amount
\* an exact integer again.
C25_SameRecord(saved, loaded) ==
    /\ loaded.amount = saved.amount
    /\ loaded.amount[1] = "bigint"
    /\ loaded.status = saved.status
    /\ loaded.attempts = saved.attempts
    /\ loaded.transactionHash = saved.transactionHash

C25_SameSummary(saved, loaded) ==
    /\ \A key \in {"totalRecords", "completed", "failed", "skipped"} :
          loaded[key] = saved[key]
    /\ \A key \in {"totalAmount", "distributedAmount", "failedAmount"} :
          loaded[key] = saved[key] /\ loaded[key][1] = "bigint"

C25_RoundTrip ==
    call.op = "loadLatestState" =>
        LET saved == call.args[1]
            loaded == call.result
        IN  /\ Len(loaded.records) = Len(saved.records)
            /\ \A k \in 1..Len(saved.records) :
                  C25_SameRecord(saved.records[k], loaded.records[k])
            /\ C25_SameSummary(saved.summary, loaded.summary)
            /\ loaded.lastProcessedIndex = saved.lastProcessedIndex

C25_Witness ==
    /\ call.op = "loadLatestState"
    /\ Len(call.result.records) = 2
    /\ call.result.records[1].amount = BigIntV(10 * MaxAmount + 7)
    /\ call.result.records[2].amount = BigIntV(0)
    /\ call.result.records[1].transactionHash[1] = "string"
    /\ call.result.summary.distributedAmount = BigIntV(0)
    /\ call.result.summary.failedAmount = BigIntV(MaxAmount)
    /\ call.result.lastProcessedIndex = NumberV(1)

\* C26: formatting the Shannon amount of a decimal text with at most
\* SHANNON_DECIMALS fractional digits gives the canonical form of the text
\* (no leading zeros beyond a single 0, no trailing fractional zeros, no point
\* when the fraction is zero), and converting the text of a Shannon amount
\* gives the amount back.
C26_InDomain(text) ==
    IsDecimalText(text) /\ Len(DecimalPart(text)) <= SHANNON_DECIMALS

RECURSIVE C26_NoLeadingZeros(_)
C26_NoLeadingZeros(text) ==
    IF Len(text) > 1 /\ text[1] = "0" THEN C26_NoLeadingZeros(Tail(text)) ELSE text

C26_CanonicalForm(text) ==
    LET fraction == StripTrailingZeroChars(DecimalPart(text))
    IN  IF fraction = <<>> THEN C26_NoLeadingZeros(WholePart(text))
        ELSE C26_NoLeadingZeros(WholePart(text)) \o <<".">> \o fraction

C26_RoundTrip ==
    /\ call.op = "ai3ToShannon" /\ C26_InDomain(call.args[1]) =>
          /\ HasValue(call.result)
          /\ ShannonToAi3(Given(call.result)) = C26_CanonicalForm(call.args[1])
    /\ call.op = "shannonToAi3" =>
          Ai3ToShannon(call.result) = Gave(call.args[1])

C26_Witness ==
    /\ call.op = "ai3ToShannon"
    /\ call.args[1] = <<"0", "7", ".">> \o ZeroChars(SHANNON_DECIMALS - 2) \o <<"5", "0">>
    /\ HasValue(call.result)
    /\ ShannonToAi3(Given(call.result)) =
          <<"7", ".">> \o ZeroChars(SHANNON_DECIMALS - 2) \o <<"5">>

\* C27: a row whose amount is zero in any spelling gets a row-level error
\* that quotes the amount, adds nothing to the records, the count and the
\* total, and makes the result invalid.
C27_IsZero(row) == IsDecimalText(Trim(row[2])) /\ IsZeroText(Trim(row[2]))

C27_ZeroRejected ==
    call.op = "validateCSV" =>
        LET rows == call.args[1]
            result == call.result
            withoutZero == ValidateCSV(SelectSeq(rows, LAMBDA row : ~C27_IsZero(row)))
        IN  /\ \A n \in 1..Len(rows) : C27_IsZero(rows[n]) =>
                  /\ ~result.isValid
                  /\ \E k \in 1..Len(result.errors) : result.errors[k][1] = n
                  /\ IsValidAutonomysAddress(Trim(rows[n][1])) =>
                        \E k \in 1..Len(result.errors) :
                            result.errors[k] =
                                Message(n, "Invalid amount format", Trim(rows[n][2]))
            /\ result.records = withoutZero.records
            /\ result.recordCount = withoutZero.recordCount
            /\ result.totalAmount = withoutZero.totalAmount
            /\ \A k \in 1..Len(result.records) : result.records[k].amount # <<0>>

C27_Witness ==
    /\ call.op = "validateCSV"
    /\ call.args[1] = <<<<<<"5", "B">>, <<"0", "0", ".", "0">>>>, <<<<"s", "u", "A">>, <<"1">>>>>>
    /\ call.result.recordCount = 1
    /\ ~call.result.isValid
    /\ call.result.errors = <<Message(1, "Invalid amount format", <<"0", "0", ".", "0">>)>>

\* C28: an amount with more than SHANNON_DECIMALS fractional digits is not
\* truncated: its conversion fails with "too many decimal places", which is
\* not the error of a malformed amount, and in CSV validation its row is an
\* error and adds nothing to the records, the count and the total.
C28_IsTooLong(row) ==
    IsDecimalText(Trim(row[2])) /\ Len(DecimalPart(Trim(row[2]))) > SHANNON_DECIMALS

C29_Accepted(row) ==
    /\ IsValidAutonomysAddress(Trim(row[1]))
    /\ IsValidAmount(Trim(row[2]))
    /\ HasValue(Ai3ToShannons(Trim(row[2])))

C29_Shannons(row) == Given(Ai3ToShannons(Trim(row[2])))

C29_Warned(row) ==
    \/ ~BigGeq(C29_Shannons(row), EXISTENTIAL_DEPOSIT_SHANNON)
    \/ ~BigGeq(C29_Shannons(row), <<1, 0, 0, 0>>)
    \/ ~BigGeq(<<1>> \o Zeros(24), C29_Shannons(row))

RECURSIVE C29_Total(_, _)
C29_Total(rows, n) ==
    IF n = 0 THEN <<0>>
    ELSE IF C29_Accepted(rows[n]) THEN BigAdd(C29_Total(rows, n - 1), C29_Shannons(rows[n]))
    ELSE C29_Total(rows, n - 1)

C30_Lines(rows, address) ==
    {n \in 1..Len(rows) : C29_Accepted(rows[n]) /\ Trim(rows[n][1]) = address}

C30_Entries(result, address) ==
    {k \in 1..Len(result.duplicates) : result.duplicates[k][1] = address}

C31_ValidLines(rows) == {n \in 1..Len(rows) : C29_Accepted(rows[n])}

RECURSIVE C31_SumOf(_, _)
C31_SumOf(parsed, n) ==
    IF n = 0 THEN <<0>> ELSE BigAdd(C31_SumOf(parsed, n - 1), parsed[n].amount)

C31_ParseReturnsValidRows ==
    call.op = "parseValidatedCSV" =>
        LET rows == call.args[1]
            parsed == Given(call.result)
            validation == ValidateCSV(rows)
        IN  /\ HasValue(call.result)
            /\ {parsed[k].sourceRowNumber : k \in 1..Len(parsed)} = C31_ValidLines(rows)
            /\ \A k \in 1..(Len(parsed) - 1) :
                  parsed[k].sourceRowNumber < parsed[k + 1].sourceRowNumber
            /\ \A k \in 1..Len(parsed) :
                  LET row == rows[parsed[k].sourceRowNumber]
                  IN  /\ parsed[k].address = Trim(row[1])
                      /\ parsed[k].amount = C29_Shannons(row)
                      /\ parsed[k].status = "pending"
            /\ validation.isValid =>
                  /\ Len(parsed) = validation.recordCount
                  /\ C31_SumOf(parsed, Len(parsed)) = validation.totalAmount

\* What does hold: the call returns exactly when no row with a valid address
\* and a valid amount has more than SHANNON_DECIMALS fractional digits, and
\* then the records are as C31 states.
C31_ReturnsUnlessConversionThrows ==
    call.op = "parseValidatedCSV" =>
        LET rows == call.args[1]
        IN  /\ HasValue(call.result) <=>
                  \A n \in 1..Len(rows) :
                      (IsValidAutonomysAddress(Trim(rows[n][1]))
                       /\ IsValidAmount(Trim(rows[n][2]))) => C29_Accepted(rows[n])
            /\ HasValue(call.result) => C31_ParseReturnsValidRows

\* C32: snapshots are cleared only on full completion. The directory is
\* cleared, and the number of snapshot files goes down, only in the step in
\* which the exhausted loop returns; at that step no record from the run's
\* starting index on is pending or processing and the run was neither paused
\* nor aborted; a run that ends paused, aborted or by an exception leaves
\* every older file as it was.
C32_Step ==
    /\ (Len(snapshots') < Len(snapshots) \/ io'.op = "clear") =>
          /\ pc = "loop" /\ i >= Len(records) /\ pc' = "done"
          /\ ~summary'.abortedByUser
          /\ \A k \in entry.from..(Len(records) - 1) :
                Rec(k).status \notin {"pending", "processing"}
    /\ pc' \in {"paused", "aborted", "threw"} =>
          /\ io'.op # "clear"
          /\ Len(snapshots') >= Len(snapshots)
          /\ \A k \in 1..(Len(snapshots) - 1) : snapshots'[k] = snapshots[k]

C32_ClearedOnlyOnCompletion == [][C32_Step]_vars

C32_Witness ==
    /\ pc = "done" /\ last = "Complete"
    /\ io = [op |-> "clear", ok |-> TRUE, cursor |-> -1]
    /\ snapshots = <<>>
    /\ entry.kind = "resume" /\ entry.from >= 1
    /\ \E k \in entry.from..(Len(records) - 1) : Rec(k).status = "failed"

\* C33: checkpointing is synchronous with the loop. While a checkpoint write
\* is in progress no transfer is outstanding; the step after the start of a
\* write is the step in which that write completes or fails, so no transfer
\* is submitted in between; and no write is in progress when a transfer is
\* submitted or when distribute() returns.
C33_Quiet ==
    io.op = "writing" => pc \notin {"submit", "confirm"} /\ inFlight = {}

C33_Step ==
    /\ io.op = "writing" => io'.op \in {"save", "clear"} /\ io'.ok \in BOOLEAN
    /\ (pc' \in {"submit", "confirm"} \/ (pc \notin Ended /\ pc' \in Ended)) =>
          io'.op # "writing"

C33_WritesAwaited == []C33_Quiet /\ [][C33_Step]_vars

C33_Witness ==
    /\ pc = "submit" /\ i >= 1
    /\ Len(snapshots) >= 2
    /\ ~Readable(snapshots[Len(snapshots)])
    /\ io.op = "none"

\* C34: reprocessing after a crash is bounded by the batch size. While a run
\* whose checkpoint writes all succeeded is under way, at most batchSize of
\* the records it has attempted are still in the newest snapshot as they were
\* when the run began.
C34_Stale ==
    {k \in 0..(Len(records) - 1) :
        /\ \E n \in 1..Len(attemptLog) : attemptLog[n] = k
        /\ LastOf(snapshots).records[k + 1] = entry.records[k + 1]}

C34_ReprocessingBounded ==
    (pc \in Running /\ ~ioFailed /\ snapshots # <<>>) =>
        Cardinality(C34_Stale) <= batchSize

\* C35: the cursor invariant of snapshots. In every readable snapshot file
\* every record before lastProcessedIndex is completed or failed,
\* lastProcessedIndex lies between 0 and the number of records, and no record
\* is processing.
C35_CursorInvariant ==
    \A n \in 1..Len(snapshots) :
        Readable(snapshots[n]) =>
            LET snap == snapshots[n]
            IN  /\ snap.lastProcessedIndex \in 0..Len(snap.records)
                /\ \A k \in 1..snap.lastProcessedIndex :
                      snap.records[k].status \in {"completed", "failed"}
                /\ \A k \in 1..Len(snap.records) : snap.records[k].status # "processing"

C35_Witness ==
    /\ entry.kind = "resume" /\ entry.from >= 1
    /\ io.op = "save" /\ io.ok /\ io.cursor = 2
    /\ snapshots # <<>> /\ Readable(LastOf(snapshots))
    /\ Len(LastOf(snapshots).records) = 3
    /\ LastOf(snapshots).lastProcessedIndex = 2
    /\ LastOf(snapshots).records[1].status = "completed"
    /\ LastOf(snapshots).records[2].status = "failed"
    /\ LastOf(snapshots).records[3].status = "pending"

\* C36: a transaction is attempted at most 3 times. With the default policy
\* or the interactive handler no record's attempts counter exceeds 3, in
\* memory or in a snapshot, over any sequence of runs, pauses and resumes.
C36_AtMostThreeAttempts ==
    /\ \A k \in 1..Len(records) : records[k].attempts <= 3
    /\ \A n \in 1..Len(snapshots) : \A k \in 1..Len(snapshots[n].records) :
          snapshots[n].records[k].attempts <= 3

\* What holds: within one distribute() call a record whose counter has
\* reached 3 is not retried.
C36_NoRetryFromThree ==
    \A n \in 1..Len(answers) : answers[n].action = "retry" => answers[n].attempts < 3

\* C37: no header subscription outlives its confirmation wait. Once the
\* promise of a wait has settled its subscription is closed and its timer no
\* longer armed; at most one subscription is open at any time; none is open
\* after distribute() has returned.
C37_NoSubscriptionOutlivesWait ==
    /\ wait.promise \in {"resolved", "rejected"} =>
          wait.sub # "active" /\ wait.timer # "armed"
    /\ wait.stale + (IF wait.sub = "active" THEN 1 ELSE 0) <= 1
    /\ pc \in Returned => wait.sub # "active" /\ wait.stale = 0

\* C38: at-most-once submission per record. Over all retries and resumes the
\* chain accepts at most one transfer transaction for each record.
C38_AtMostOnce == \A k \in 1..Len(chain) : chain[k] <= 1

\* C39: clearOldStates(keepCount) keeps the keepCount newest snapshots: the
\* listing after it starts with the first min(keepCount, n) names of the
\* listing before it, in the same order, and is exactly those names when no
\* removal failed; nothing is deleted when n <= keepCount; and for
\* keepCount >= 1 the result of loadLatestState is unchanged.
C39_Listing(store) == [j \in 1..Len(store) |-> store[ListResumeFiles(store)[j]]]

C39_KeepsNewest ==
    call.op = "clearOldStates" =>
        LET store == call.args[1]
            keepCount == call.args[2]
            n == Len(store)
            kept == IF keepCount <= n THEN keepCount ELSE n
            after == call.result
        IN  /\ Len(after) >= kept
            /\ SubSeq(C39_Listing(after), 1, kept) = SubSeq(C39_Listing(store), 1, kept)
            /\ call.args[3] = n - kept => Len(after) = kept
            /\ n <= keepCount => after = store
            /\ keepCount >= 1 =>
                  /\ HasLatest(after) <=> HasLatest(store)
                  /\ HasLatest(store) => LoadLatestState(after) = LoadLatestState(store)

C39_Witness ==
    /\ call.op = "clearOldStates"
    /\ call.args = <<<<Snapshot(<<>>, NoSummary, 0), Snapshot(<<>>, NoSummary, 1), Torn>>, 2, 1>>
    /\ call.result = <<Snapshot(<<>>, NoSummary, 1), Torn>>

\* C40: the loads never throw and do not fall back. loadLatestState returns
\* null exactly when there is no file or the newest file cannot be read, also
\* when an older file is readable, and the newest file otherwise;
\* loadSpecificState returns null exactly when the named file is missing or
\* cannot be read; exportResumeData throws exactly when loadLatestState
\* returned null or its write failed.
C40_LoadsReturnNull ==
    /\ call.op = "loadLatest" =>
          LET store == call.args[1]
          IN  /\ HasValue(call.result)
              /\ Given(call.result) = Null <=>
                    (store = <<>> \/ ~Readable(store[Len(store)]))
              /\ Given(call.result) # Null => Given(call.result) = Data(store[Len(store)])
    /\ call.op = "loadSpecificState" =>
          LET store == call.args[1]
              name == call.args[2]
          IN  /\ HasValue(call.result)
              /\ Given(call.result) = Null <=>
                    (name \notin 1..Len(store) \/ ~Readable(store[name]))
              /\ Given(call.result) # Null => Given(call.result) = Data(store[name])
    /\ call.op = "exportResumeData" =>
          LET store == call.args[1]
          IN  ~HasValue(call.result) <=>
                  (store = <<>> \/ ~Readable(store[Len(store)]) \/ call.args[2] # "written")

C40_Witness ==
    /\ call.op = "loadLatest"
    /\ call.args = <<<<Snapshot(<<>>, NoSummary, 0), Snapshot(<<>>, NoSummary, 1), Torn>>>>
    /\ call.result = Gave(Null)

====
